---- MODULE Spec2Model ----
(***************************************************************************)
(* A model of the agreement core of the angstrom sequencer:                *)
(*   - the Round Context (crates/consensus/src/rounds/mod.rs): delivery of *)
(*     PreProposals, PreProposalAggregations and Proposals, the seen sets  *)
(*     and the outbound queue;                                             *)
(*   - quorum filtering and proposal replay (rounds/mod.rs,                *)
(*     rounds/finalization.rs);                                            *)
(*   - the volume-fill matcher (crates/matching-engine/src/matcher/        *)
(*     volume.rs) and book construction (matching-engine/src/lib.rs).      *)
(*   - the round state machine (rounds/mod.rs, rounds/finalization.rs):   *)
(*     handle_message, poll_next, reset_round and the phase objects;       *)
(*   - the Commit and Submit states of the round/ state machine            *)
(*     (crates/consensus/src/round/commit.rs, submit.rs).                  *)
(* The specifications share the variables: Spec (the handlers of the Round *)
(* Context), SpecReplay (the steps of the leader's solve and of the replay *)
(* verification, with deliveries and resets between them), SpecFill (one   *)
(* solve), SpecMachine and SpecMachineFair (the round state machine),      *)
(* SpecRound (the Commit state and the constructor of Submit), and the     *)
(* calls of single functions: SpecQuorum (the quorum threshold), SpecBook  *)
(* (build_book), SpecPreProposalSign and SpecProposalSign (signing and     *)
(* validating), SpecPreProposalNew (PreProposal::new).                     *)
(***************************************************************************)
EXTENDS Integers, Sequences, FiniteSets, TLC

VARIABLES
    block_height,          \* Consensus.block_height
    round_leader,          \* Consensus.round_leader
    messages,              \* Consensus.messages (outbound FIFO)
    pre_proposal_set,      \* the phase's HashSet<PreProposal> handed to handle_pre_proposal
    pre_proposal_agg_set,  \* the phase's HashSet<PreProposalAggregation>
    enqueued,              \* history: every message pushed since the last reset_round
    last_event,            \* history: the last operation called, with its input and result
    replay,                \* SpecReplay: the future in flight, the Proposal and the results
    matcher,               \* SpecFill: the VolumeFillMatcher being run
    current_state,         \* RoundStateMachine.current_state, the phase object
    woken,                 \* the task's waker has been woken: a poll is scheduled
    round_state            \* SpecRound: the phase object of the round/ state machine

roundVars == <<block_height, round_leader, messages, pre_proposal_set,
               pre_proposal_agg_set, enqueued, last_event>>
vars == <<block_height, round_leader, messages, pre_proposal_set,
          pre_proposal_agg_set, enqueued, last_event, replay, matcher,
          current_state, woken, round_state>>

---------------------------------------------------------------------------
(* Bounds of the model. *)

\* size of the validator roster (Consensus.validators)
NumValidators == 3
\* block heights run from 1 to MaxHeight
MaxHeight == 2
\* distinct signatures one signer can produce over one payload
MaxNonce == 2
\* cap on the length of the outbound queue
MaxQueue == 2

---------------------------------------------------------------------------
(* Identities. *)

validators == 1..NumValidators
Outsider == NumValidators + 1
PeerIds == validators \cup {Outsider}
\* the identity no peer holds: what a failed signature recovery yields
NoPeer == Outsider + 1
\* Option::None, and the value of a variable its specification does not use
None == [none |-> TRUE]
Idle == [idle |-> TRUE]

---------------------------------------------------------------------------
(* Generic helpers. *)

\* a minimum that hands back the larger value
MinTakesLarger(a, b) == IF a >= b THEN a ELSE b

Min(a, b) == IF a <= b THEN a ELSE b
Max(a, b) == IF a >= b THEN a ELSE b

DivFloor(a, b) == a \div b

\* usize::div_ceil
DivCeil(a, b) == (a + b - 1) \div b

RECURSIVE SortedKeys(_)
\* `keys().collect(); keys.sort()`: the keys of a map in ascending order
SortedKeys(S) ==
    IF S = {} THEN <<>>
    ELSE LET k == CHOOSE x \in S : \A y \in S : x <= y
         IN <<k>> \o SortedKeys(S \ {k})

EmptyMap == [k \in {} |-> Idle]

---------------------------------------------------------------------------
(* Signatures (alloy signers, used by pre_prepose.rs and proposal.rs).     *)
(* A signature binds the signer and the hash it was made over; the nonce   *)
(* distinguishes the signatures one key can make over one hash (ECDSA      *)
(* signatures are not deterministic, pre_prepose.rs:75-78).                *)

Keccak256(payload) == <<"keccak256", payload>>

SignHash(signer, hash, nonce) == [signer |-> signer, hash |-> hash, nonce |-> nonce]

\* recover_from_prehash: the signer when the hash is the signed one; over any
\* other hash recovery yields no key, or a key unrelated to every identity
RecoverFromPrehash(signature, hash) ==
    IF signature.hash = hash THEN signature.signer ELSE NoPeer

---------------------------------------------------------------------------
(* PreProposal (crates/types/src/consensus/pre_prepose.rs). *)

\* serialize_payload: height, then the limit entries by ascending pool id,
\* then the searcher entries by ascending pool id
SerializePayload(block, limit, searcher) ==
    LET lk == SortedKeys(DOMAIN limit)
        sk == SortedKeys(DOMAIN searcher)
    IN <<block>>
       \o [i \in 1..Len(lk) |-> <<lk[i], limit[lk[i]]>>]
       \o [i \in 1..Len(sk) |-> <<sk[i], searcher[sk[i]]>>]

PreProposalPayload(pp) == SerializePayload(pp.block_height, pp.limit, pp.searcher)

\* generate_pre_proposal, with the signature the signer happens to produce
GeneratePreProposal(height, sk, limit, searcher, nonce) ==
    [block_height |-> height,
     source       |-> sk,
     limit        |-> limit,
     searcher     |-> searcher,
     signature    |-> SignHash(sk, Keccak256(SerializePayload(height, limit, searcher)), nonce)]

\* a PreProposal naming `source` but signed by another key
ForgedPreProposal(height, source, limit, searcher, signer) ==
    [GeneratePreProposal(height, signer, limit, searcher, 1) EXCEPT !.source = source]

PreProposalIsValidNoHeight(pp, height) ==
    LET source == RecoverFromPrehash(pp.signature, Keccak256(PreProposalPayload(pp)))
    IN source # NoPeer /\ source = pp.source

\* PreProposal::is_valid
PreProposalIsValid(pp, height) ==
    LET source == RecoverFromPrehash(pp.signature, Keccak256(PreProposalPayload(pp)))
    IN source # NoPeer /\ source = pp.source /\ pp.block_height = height

\* #[derive(PartialEq, Eq)] on PreProposal: every field, the signature included
PreProposalEq(a, b) ==
    /\ a.block_height = b.block_height
    /\ a.source = b.source
    /\ a.limit = b.limit
    /\ a.searcher = b.searcher
    /\ a.signature = b.signature

\* PreProposal::content: the PreProposal without its signature
PreProposalContent(pp) ==
    [block_height |-> pp.block_height, source |-> pp.source,
     limit |-> pp.limit, searcher |-> pp.searcher]

---------------------------------------------------------------------------
(* PreProposalAggregation: a validator's collected PreProposals, signed.   *)

AggregationPayload(agg) == <<agg.block_height, agg.pre_proposals>>

GenerateAggregation(height, sk, pre_proposals, nonce) ==
    [block_height  |-> height,
     source        |-> sk,
     pre_proposals |-> pre_proposals,
     signature     |-> SignHash(sk, Keccak256(<<height, pre_proposals>>), nonce)]

ForgedAggregation(height, source, pre_proposals, signer) ==
    [GenerateAggregation(height, signer, pre_proposals, 1) EXCEPT !.source = source]

AggregationIsValidNoHeight(agg, height) ==
    LET source == RecoverFromPrehash(agg.signature, Keccak256(AggregationPayload(agg)))
    IN source # NoPeer /\ source = agg.source

\* PreProposalAggregation::is_valid
AggregationIsValid(agg, height) ==
    LET source == RecoverFromPrehash(agg.signature, Keccak256(AggregationPayload(agg)))
    IN source # NoPeer /\ source = agg.source /\ agg.block_height = height

AggregationEq(a, b) ==
    /\ a.block_height = b.block_height
    /\ a.source = b.source
    /\ a.pre_proposals = b.pre_proposals
    /\ a.signature = b.signature

---------------------------------------------------------------------------
(* Proposal (crates/types/src/consensus/proposal.rs). *)

\* the orders in which a hash container can hand out the elements of S
IterationOrders(S) ==
    {s \in [1..Cardinality(S) -> S] :
        \A i, j \in 1..Cardinality(S) : i # j => s[i] # s[j]}

\* the orders in which the two HashMaps of a PreProposal held in memory can
\* hand their keys out; an element that is a PreProposalAggregation is
\* encoded as the value it is
MapOrders(pre) ==
    IF "pre_proposals" \in DOMAIN pre THEN {[limit |-> <<>>, searcher |-> <<>>]}
    ELSE {[limit |-> l, searcher |-> s] :
             l \in IterationOrders(DOMAIN pre.limit),
             s \in IterationOrders(DOMAIN pre.searcher)}

\* the map orders the elements of a Vec<PreProposal> can have in memory
VecMapOrders(preproposals) ==
    {map_order \in [DOMAIN preproposals ->
                       UNION {MapOrders(preproposals[i]) : i \in DOMAIN preproposals}] :
        \A i \in DOMAIN preproposals : map_order[i] \in MapOrders(preproposals[i])}

\* the derived Serialize of PreProposal: the fields in their order, each
\* HashMap entry by entry in the order the map hands them out
EncodePreProposal(pre, order) ==
    IF "pre_proposals" \in DOMAIN pre THEN <<pre>>
    ELSE <<pre.block_height, pre.source,
           [i \in DOMAIN order.limit |-> <<order.limit[i], pre.limit[order.limit[i]]>>],
           [i \in DOMAIN order.searcher |->
               <<order.searcher[i], pre.searcher[order.searcher[i]]>>],
           pre.signature>>

\* encode_to_vec(&preproposals): the elements in the order of the Vec
EncodeToVec(preproposals, map_order) ==
    [i \in DOMAIN preproposals |-> EncodePreProposal(preproposals[i], map_order[i])]

\* Proposal::payload; map_order is the order the maps of this Proposal's
\* PreProposals iterate in, which is not part of its value
ProposalPayload(p) ==
    <<p.ethereum_height, p.source, EncodeToVec(p.preproposals, p.map_order), p.solutions>>

\* Proposal::generate_proposal: `source` is an argument of its own, the
\* signature is made with the key sk over the encoding of the arguments,
\* whose maps iterate in map_order
GenerateProposal(ethereum_height, source, preproposals, solutions, sk, map_order) ==
    [ethereum_height |-> ethereum_height,
     source          |-> source,
     preproposals    |-> preproposals,
     solutions       |-> solutions,
     map_order       |-> map_order,
     signature       |-> SignHash(sk,
                             Keccak256(<<ethereum_height, source,
                                         EncodeToVec(preproposals, map_order), solutions>>), 1)]

\* #[derive(PartialEq, Eq)] on Proposal: the five fields; two maps with the
\* same entries are equal whatever order they iterate in
ProposalEq(a, b) ==
    /\ a.ethereum_height = b.ethereum_height
    /\ a.source = b.source
    /\ a.preproposals = b.preproposals
    /\ a.solutions = b.solutions
    /\ a.signature = b.signature

\* a Proposal equal to p whose maps were built anew: a clone rebuilt entry by
\* entry, or the Proposal decoded from its bytes
Rebuilt(p) == {[p EXCEPT !.map_order = map_order] :
                  map_order \in VecMapOrders(p.preproposals)}

\* a validation that accepts the signature of any key over the payload
ProposalValidateAnySigner(p) ==
    RecoverFromPrehash(p.signature, Keccak256(ProposalPayload(p))) # NoPeer

\* Proposal::validate
ProposalValidate(p) ==
    LET source == RecoverFromPrehash(p.signature, Keccak256(ProposalPayload(p)))
    IN source # NoPeer /\ source = p.source

\* Proposal::is_valid(height), as rounds/mod.rs:261 calls it
ProposalIsValid(p, height) == ProposalValidate(p) /\ p.ethereum_height = height

---------------------------------------------------------------------------
(* Orders, fill states and order containers of the matching engine.        *)
(* An order is [order_id, pool_id, is_bid, price, quantity, standing];     *)
(* `standing` tells GroupedVanillaOrder::Standing from KillOrFill.         *)

\* Option<T> of the matcher: None is the empty sequence, Some(x) is <<x>>
Nothing == <<>>
Some(x) == <<x>>

\* OrderFillState
Unfilled == [tag |-> "Unfilled", filled |-> 0]
CompleteFill == [tag |-> "CompleteFill", filled |-> 0]
PartialFill(q) == [tag |-> "PartialFill", filled |-> q]

\* OrderFillState::partial_fill: the partial quantity accumulates
PartialFillOf(state, quantity) ==
    IF state.tag = "Unfilled" THEN PartialFill(quantity)
    ELSE IF state.tag = "PartialFill" THEN PartialFill(state.filled + quantity)
    ELSE state

\* OrderContainer: a resting order, the carried remainder of one, or an
\* order synthesised from the AMM curve. The types of the AMM side
\* (MarketPrice, PoolPriceVec) and OrderContainer's methods are defined
\* outside these sources, and no curve is given for them: what their calls
\* answer is left open. One run of fill()'s loop takes its answers from a
\* record `amm`,
\*     to_bid, to_ask : what order_to_target returns for the side, None or
\*                      an AMM order [price, quantity] that carries what its
\*                      price() and quantity() will answer,
\*     end_price      : the price of the end_bound of the filled AMM order,
\*     d_t0, d_t1     : the token amounts of the filled AMM order,
\* and the caller of the run draws the record from every value it can have.
BookOrder(o) == [kind |-> "BookOrder", order |-> o]
BookOrderFragment(o) == [kind |-> "BookOrderFragment", order |-> o]
AmmOrder(v) == [kind |-> "AMM", order |-> v]

IsAmm(c) == c.kind = "AMM"
\* OrderContainer::is_partial: a resting order of a type that may rest partly filled
IsPartial(c) == ~IsAmm(c) /\ c.order.standing
\* OrderContainer::price: the limit price of a resting order, the price the
\* AMM order answers with
ContainerPrice(c) == c.order.price

\* OrderContainer::quantity on an AMM order: whatever the order answers at
\* the limit price, open in the model
AmmQuantity(v, limit_price) == v.quantity

\* OrderContainer::quantity: resting orders ignore the limit price
ContainerQuantity(c, limit_price) ==
    IF IsAmm(c) THEN AmmQuantity(c.order, limit_price) ELSE c.order.quantity

\* OrderContainer::fill on a resting order: the order with the quantity left
ContainerFill(c, filled_quantity) ==
    [c.order EXCEPT !.quantity = c.order.quantity - filled_quantity]

\* OrderContainer::fill on an AMM order: the filled order, of which fill()
\* reads the end_bound and the token amounts; all three are open in the model
AmmFill(v, quantity, amm) ==
    [end_bound |-> [price |-> amm.end_price], d_t0 |-> amm.d_t0, d_t1 |-> amm.d_t1]

\* MarketPrice::order_to_target: None or an AMM order, open in the model
OrderToTarget(amm_price, target_price, buy, amm) ==
    IF buy THEN amm.to_ask ELSE amm.to_bid

\* the answers of a run on a book without an AMM, which asks for none
NoAmmAnswers ==
    [to_bid |-> Nothing, to_ask |-> Nothing, end_price |-> 0, d_t0 |-> 0, d_t1 |-> 0]

---------------------------------------------------------------------------
(* VolumeFillMatcher (crates/matching-engine/src/matcher/volume.rs).       *)
(* Indices are zero-based as in the source; xpool exclusions are all None  *)
(* (VolumeFillMatcher::new passes none) and are left out.                  *)

\* Solution::default
DefaultSolution ==
    [total_volume |-> 0, partial_volume |-> <<0, 0>>, amm_volume |-> 0,
     amm_final_price |-> Nothing, price |-> Nothing]

\* VolumeFillMatcher::with_related; `reason` is what fill() returned (None
\* while it has not), `iterations` counts the runs of its loop body, `step`
\* is the record of the last run (None before the first)
WithRelated(book) ==
    [book            |-> book,
     bid_idx         |-> 0,
     bid_outcomes    |-> [i \in 1..Len(book.bids) |-> Unfilled],
     ask_idx         |-> 0,
     ask_outcomes    |-> [i \in 1..Len(book.asks) |-> Unfilled],
     amm_price       |-> book.amm,
     amm_outcome     |-> Nothing,
     current_partial |-> Nothing,
     results         |-> DefaultSolution,
     checkpoint      |-> Nothing,
     reason          |-> Nothing,
     iterations      |-> 0,
     step            |-> Nothing,
     solution        |-> Nothing]

\* the copy save_checkpoint stores: the solve state, with no checkpoint inside
CheckpointOf(m) ==
    [bid_idx |-> m.bid_idx, bid_outcomes |-> m.bid_outcomes,
     ask_idx |-> m.ask_idx, ask_outcomes |-> m.ask_outcomes,
     amm_price |-> m.amm_price, amm_outcome |-> m.amm_outcome,
     current_partial |-> m.current_partial, results |-> m.results,
     checkpoint |-> Nothing]

\* VolumeFillMatcher::save_checkpoint
SaveCheckpoint(m) == [m EXCEPT !.checkpoint = Some(CheckpointOf(m))]

\* VolumeFillMatcher::new
NewMatcher(book) == SaveCheckpoint(WithRelated(book))

\* a scan that steps over the order at the index whatever its outcome
NextUnfilledSkipsOne(outcomes, index) ==
    IF index < Len(outcomes) THEN index + 1 ELSE index

RECURSIVE NextUnfilled(_, _)
\* try_next_order's scan: the first index at or after `index` whose outcome is Unfilled
NextUnfilled(outcomes, index) ==
    IF index < Len(outcomes) /\ outcomes[index + 1].tag # "Unfilled"
    THEN NextUnfilled(outcomes, index + 1)
    ELSE index

\* VolumeFillMatcher::try_next_order: the AMM order that takes precedence, if
\* any, and the value the index cell holds afterwards
TryNextOrder(m, is_ask, amm) ==
    LET order_book == IF is_ask THEN m.book.asks ELSE m.book.bids
        outcomes == IF is_ask THEN m.ask_outcomes ELSE m.bid_outcomes
        cell == IF is_ask THEN m.ask_idx ELSE m.bid_idx
        index == NextUnfilled(outcomes, cell)
        target_price == IF index < Len(order_book)
                        THEN Some(order_book[index + 1].price) ELSE Nothing
        amm_order == IF m.amm_price = Nothing THEN Nothing
                     ELSE OrderToTarget(m.amm_price[1], target_price, is_ask, amm)
    IN [amm_order |-> amm_order,
        index |-> IF amm_order = Nothing THEN index ELSE cell]

\* the container one side of an iteration works with (None: the side is
\* exhausted) and the side's index cell afterwards
SideOrder(m, is_ask, amm) ==
    IF m.current_partial # Nothing /\ m.current_partial[1].is_bid = ~is_ask
    THEN [container |-> Some(BookOrderFragment(m.current_partial[1])),
          index |-> IF is_ask THEN m.ask_idx ELSE m.bid_idx]
    ELSE LET next == TryNextOrder(m, is_ask, amm)
             order_book == IF is_ask THEN m.book.asks ELSE m.book.bids
         IN [container |->
                 IF next.amm_order # Nothing THEN Some(AmmOrder(next.amm_order[1]))
                 ELSE IF next.index < Len(order_book)
                      THEN Some(BookOrder(order_book[next.index + 1]))
                      ELSE Nothing,
             index |-> next.index]

\* NetAmmOrder::new(is_bid) followed by add_quantity
AddAmmQuantity(amm_outcome, is_bid, d_t0, d_t1) ==
    LET cur == IF amm_outcome = Nothing
               THEN [is_bid |-> is_bid, t0 |-> 0, t1 |-> 0] ELSE amm_outcome[1]
    IN Some([cur EXCEPT !.t0 = cur.t0 + d_t0, !.t1 = cur.t1 + d_t1])

\* a step that records nothing of the volume it matched
RecordMatchNothing(m, bid, ask, matched, amm) == m

\* fill(), lines 189-214: the matched volume is recorded and the AMM moved
RecordMatch(m, bid, ask, matched, amm) ==
    LET r1 == [m.results EXCEPT
                  !.total_volume = m.results.total_volume + matched,
                  !.partial_volume =
                      <<m.results.partial_volume[1] + (IF IsPartial(bid) THEN matched ELSE 0),
                        m.results.partial_volume[2] + (IF IsPartial(ask) THEN matched ELSE 0)>>]
    IN IF IsAmm(bid) \/ IsAmm(ask)
       THEN LET o == IF IsAmm(bid) THEN bid ELSE ask
                final_amm_order == AmmFill(o.order, matched, amm)
            IN [m EXCEPT
                   !.amm_price = Some(final_amm_order.end_bound),
                   !.results = [r1 EXCEPT !.amm_volume = r1.amm_volume + matched,
                                          !.amm_final_price =
                                              Some(final_amm_order.end_bound.price)],
                   !.amm_outcome = AddAmmQuantity(m.amm_outcome, IsAmm(bid),
                                       final_amm_order.d_t0, final_amm_order.d_t1)]
       ELSE [m EXCEPT !.results = r1]

\* a marking that does not tell the AMM's orders from the resting ones
MarkCompleteAlways(outcomes, index, container) ==
    [i \in DOMAIN outcomes |-> IF i = index + 1 THEN CompleteFill ELSE outcomes[i]]

\* a fill step that never marks an order CompleteFill
MarkCompleteNever(outcomes, index, container) == outcomes

\* fill(), lines 224-229, 239-241, 254-256: an order that is not the AMM's is
\* marked CompleteFill at its side's index
MarkComplete(outcomes, index, container) ==
    IF ~IsAmm(container) THEN [outcomes EXCEPT ![index + 1] = CompleteFill] ELSE outcomes

\* a partial fill that records the quantity of the order, not the matched one
MarkPartialWholeOrder(outcomes, index, container, matched) ==
    IF ~IsAmm(container)
    THEN [outcomes EXCEPT ![index + 1] = PartialFillOf(outcomes[index + 1], container.order.quantity)]
    ELSE outcomes

\* fill(), lines 243-249, 258-264: the side left with a remainder accumulates
\* the matched quantity in its outcome
MarkPartial(outcomes, index, container, matched) ==
    IF ~IsAmm(container)
    THEN [outcomes EXCEPT ![index + 1] = PartialFillOf(outcomes[index + 1], matched)]
    ELSE outcomes

\* fill(), lines 217-266: the outcome of the step by the order of the quantities
SettleMatch(m, bid, ask, bid_q, ask_q, matched) ==
    IF bid_q = ask_q
    THEN SaveCheckpoint(
             [m EXCEPT
                 !.results.price = Some((ContainerPrice(ask) + ContainerPrice(bid)) \div 2),
                 !.ask_outcomes = MarkComplete(m.ask_outcomes, m.ask_idx, ask),
                 !.bid_outcomes = MarkComplete(m.bid_outcomes, m.bid_idx, bid),
                 !.current_partial = Nothing])
    ELSE IF bid_q > ask_q
    THEN [m EXCEPT
             !.results.price = Some(ContainerPrice(bid)),
             !.ask_outcomes = MarkComplete(m.ask_outcomes, m.ask_idx, ask),
             !.bid_outcomes = MarkPartial(m.bid_outcomes, m.bid_idx, bid, matched),
             !.current_partial = IF ~IsAmm(bid) THEN Some(ContainerFill(bid, ask_q))
                                 ELSE Nothing]
    ELSE [m EXCEPT
             !.results.price = Some(ContainerPrice(ask)),
             !.bid_outcomes = MarkComplete(m.bid_outcomes, m.bid_idx, bid),
             !.ask_outcomes = MarkPartial(m.ask_outcomes, m.ask_idx, ask, matched),
             !.current_partial = IF ~IsAmm(ask) THEN Some(ContainerFill(ask, bid_q))
                                 ELSE Nothing]

\* a checkpoint taken after every step, whatever remainder is carried
CheckpointAlways(m) == SaveCheckpoint(m)

\* fill(), lines 267-277: a state with no carried remainder, or with the
\* remainder of a Standing order, is checkpointed
CheckpointIfGood(m) ==
    LET good_state == IF m.current_partial = Nothing THEN TRUE
                      ELSE m.current_partial[1].standing
    IN IF good_state THEN SaveCheckpoint(m) ELSE m

\* a return that reports NoMoreAsks whatever ended the loop
EndedNoMoreAsks(m, reason) == [m EXCEPT !.reason = Some("NoMoreAsks")]

\* fill() returns the reason its loop ended with
Ended(m, reason) == [m EXCEPT !.reason = Some(reason)]

\* history: the containers the last run of the loop worked with (None for a
\* side it did not get), the quantities they offered and the volume matched
WithStep(m, bid, ask, bid_q, ask_q, matched) ==
    [m EXCEPT !.step = Some([bid |-> bid, ask |-> ask, bid_q |-> bid_q,
                             ask_q |-> ask_q, matched |-> matched])]

\* one run of the loop body of VolumeFillMatcher::fill, the AMM side
\* answering as `amm` says; each local of the loop is bound as a value once,
\* as the code computes it once
FillIteration(m0, amm) ==
    LET m1 == [m0 EXCEPT !.iterations = m0.iterations + 1]
        AfterBid(bid_side) ==
            LET m2 == [m1 EXCEPT !.bid_idx = bid_side.index]
                AfterAsk(ask_side) ==
                    LET m3 == [m2 EXCEPT !.ask_idx = ask_side.index]
                        bid == bid_side.container[1]
                        ask == ask_side.container[1]
                        Match(bid_q, ask_q, matched) ==
                            IF IsAmm(bid) /\ IsAmm(ask)
                            THEN WithStep(Ended(m3, "BothSidesAMM"),
                                          Some(bid), Some(ask), bid_q, ask_q, 0)
                            ELSE IF ContainerPrice(ask) > ContainerPrice(bid)
                            THEN WithStep(Ended(m3, "NoLongerCross"),
                                          Some(bid), Some(ask), bid_q, ask_q, 0)
                            ELSE IF ask_q = 0 \/ bid_q = 0
                            THEN WithStep(Ended(m3, "ZeroQuantity"),
                                          Some(bid), Some(ask), bid_q, ask_q, 0)
                            ELSE CHOOSE done \in
                                     {WithStep(CheckpointIfGood(settled),
                                               Some(bid), Some(ask), bid_q, ask_q, matched) :
                                         settled \in
                                             {SettleMatch(recorded, bid, ask,
                                                          bid_q, ask_q, matched) :
                                                 recorded \in
                                                     {RecordMatch(m3, bid, ask, matched, amm)}}} :
                                     TRUE
                    IN IF ask_side.container = Nothing
                       THEN WithStep(Ended(m3, "NoMoreAsks"),
                                     bid_side.container, Nothing, 0, 0, 0)
                       ELSE CHOOSE done \in
                                {Match(bid_q, ask_q, Min(ask_q, bid_q)) :
                                    bid_q \in {ContainerQuantity(bid, ContainerPrice(ask))},
                                    ask_q \in {ContainerQuantity(ask, ContainerPrice(bid))}} :
                                TRUE
            IN IF bid_side.container = Nothing
               THEN WithStep(Ended(m2, "NoMoreBids"), Nothing, Nothing, 0, 0, 0)
               ELSE CHOOSE done \in
                        {AfterAsk(ask_side) : ask_side \in {SideOrder(m2, TRUE, amm)}} : TRUE
    IN CHOOSE done \in {AfterBid(bid_side) : bid_side \in {SideOrder(m1, FALSE, amm)}} : TRUE

\* VolumeFillMatcher::solution: the outcomes of the bids, then of the asks
MatcherSolution(m, searcher) ==
    [id |-> m.book.id,
     ucp |-> IF m.results.price = Nothing THEN 0 ELSE m.results.price[1],
     amm_quantity |-> m.amm_outcome,
     searcher |-> searcher,
     limit |-> [i \in 1..Len(m.book.bids) |->
                   [id |-> m.book.bids[i].order_id, outcome |-> m.bid_outcomes[i]]]
               \o [i \in 1..Len(m.book.asks) |->
                   [id |-> m.book.asks[i].order_id, outcome |-> m.ask_outcomes[i]]]]

---------------------------------------------------------------------------
(* The Round Context (crates/consensus/src/rounds/mod.rs). *)

\* Consensus::two_thirds_of_validation_set on a roster of `len` validators
TwoThirdsOf(len) == DivCeil(2 * len, 3)

\* Consensus::two_thirds_of_validation_set
two_thirds_of_validation_set == TwoThirdsOf(Cardinality(validators))

\* ConsensusTransitionMessage and its From impls
PropagatePreProposal(pp) == [kind |-> "PropagatePreProposal", payload |-> pp]
PropagatePreProposalAgg(agg) == [kind |-> "PropagatePreProposalAgg", payload |-> agg]
PropagateProposal(p) == [kind |-> "PropagateProposal", payload |-> p]

\* HashSet<PreProposal>::contains, by the derived equality
PreProposalSetContains(set, pp) == \E x \in set : PreProposalEq(x, pp)
\* HashSet<PreProposalAggregation>::contains
AggregationSetContains(set, agg) == \E x \in set : AggregationEq(x, agg)

HandleProposalVerificationNoDedup(peer_id, proposal, proposal_set, valid, contains, message) ==
    IF ~(peer_id \in validators) THEN [messages |-> messages, proposal_set |-> proposal_set]
    ELSE IF ~valid THEN [messages |-> messages, proposal_set |-> proposal_set]
    ELSE [messages |-> Append(messages, message), proposal_set |-> proposal_set \cup {proposal}]

HandleProposalVerificationKeepLast(peer_id, proposal, proposal_set, valid, contains, message) ==
    IF ~(peer_id \in validators) \/ ~valid
    THEN [messages |-> messages, proposal_set |-> proposal_set]
    ELSE [messages |-> IF contains THEN messages ELSE Append(messages, message),
          proposal_set |-> {proposal}]

\* Consensus::handle_proposal_verification: the new queue and the new seen
\* set. `valid` is the result of the validity closure, `contains` that of
\* proposal_set.contains(&proposal), `message` is proposal.clone().into()
HandleProposalVerification(peer_id, proposal, proposal_set, valid, contains, message) ==
    IF ~(peer_id \in validators)
    THEN [messages |-> messages, proposal_set |-> proposal_set]
    ELSE IF ~valid
    THEN [messages |-> messages, proposal_set |-> proposal_set]
    ELSE IF ~contains
    THEN [messages |-> Append(messages, message),
          proposal_set |-> proposal_set \cup {proposal}]
    ELSE [messages |-> messages, proposal_set |-> proposal_set]

\* the messages pushed by a call that turned queue `before` into `after`
Pushed(before, after) == SubSeq(after, Len(before) + 1, Len(after))

\* Consensus::handle_pre_proposal
HandlePreProposal(peer_id, pre_proposal) ==
    LET r == HandleProposalVerification(peer_id, pre_proposal, pre_proposal_set,
                 PreProposalIsValid(pre_proposal, block_height),
                 PreProposalSetContains(pre_proposal_set, pre_proposal),
                 PropagatePreProposal(pre_proposal))
    IN /\ Len(r.messages) <= MaxQueue
       /\ messages' = r.messages
       /\ pre_proposal_set' = r.proposal_set
       /\ enqueued' = enqueued \o Pushed(messages, r.messages)
       /\ last_event' = [op |-> "handle_pre_proposal", peer |-> peer_id,
                         item |-> pre_proposal, returned |-> None]
       /\ UNCHANGED <<block_height, round_leader, pre_proposal_agg_set, replay, matcher,
                    round_state>>

\* Consensus::handle_pre_proposal_aggregation
HandlePreProposalAggregation(peer_id, pre_proposal_agg) ==
    LET r == HandleProposalVerification(peer_id, pre_proposal_agg, pre_proposal_agg_set,
                 AggregationIsValid(pre_proposal_agg, block_height),
                 AggregationSetContains(pre_proposal_agg_set, pre_proposal_agg),
                 PropagatePreProposalAgg(pre_proposal_agg))
    IN /\ Len(r.messages) <= MaxQueue
       /\ messages' = r.messages
       /\ pre_proposal_agg_set' = r.proposal_set
       /\ enqueued' = enqueued \o Pushed(messages, r.messages)
       /\ last_event' = [op |-> "handle_pre_proposal_aggregation", peer |-> peer_id,
                         item |-> pre_proposal_agg, returned |-> None]
       /\ UNCHANGED <<block_height, round_leader, pre_proposal_set, replay, matcher,
                    round_state>>

\* Consensus::verify_proposal: the value returned, None or the proposal
VerifyProposalResult(peer_id, proposal) ==
    IF round_leader # peer_id THEN None
    ELSE IF ProposalIsValid(proposal, block_height) THEN proposal
    ELSE None

\* Consensus::verify_proposal
VerifyProposal(peer_id, proposal) ==
    LET result == VerifyProposalResult(peer_id, proposal)
        pushed == IF result # None THEN <<PropagateProposal(proposal)>> ELSE <<>>
    IN /\ Len(messages \o pushed) <= MaxQueue
       /\ messages' = messages \o pushed
       /\ enqueued' = enqueued \o pushed
       /\ last_event' = [op |-> "verify_proposal", peer |-> peer_id,
                         item |-> proposal, returned |-> result]
       /\ UNCHANGED <<block_height, round_leader, pre_proposal_set,
                      pre_proposal_agg_set, replay, matcher, round_state>>

\* RoundStateMachine.consensus_wait_duration, in timer ticks
consensus_wait_duration == 1

\* BidAggregationState::new: the wait timer is armed with the whole duration
BidAggregationNew(wait_duration) ==
    [phase |-> "BidAggregation", remaining |-> wait_duration]

\* RoundStateMachine::reset_round: the height and the leader are replaced and
\* the phase is a fresh BidAggregationState, so the seen sets the previous
\* phase owned are gone; the outbound queue is not touched
ResetRound(new_block, new_leader) ==
    /\ block_height' = new_block
    /\ round_leader' = new_leader
    /\ pre_proposal_set' = {}
    /\ pre_proposal_agg_set' = {}
    /\ enqueued' = <<>>
    /\ last_event' = [op |-> "reset_round", peer |-> new_leader,
                      item |-> Idle, returned |-> None]
    /\ current_state' = BidAggregationNew(consensus_wait_duration)
    /\ UNCHANGED <<messages, replay, matcher, round_state>>

---------------------------------------------------------------------------
(* Inputs of the round. *)

\* the one limit order the round's PreProposals carry
RoundOrder == [order_id |-> 1, pool_id |-> 1, is_bid |-> TRUE,
               price |-> 2, quantity |-> 1, standing |-> TRUE]
RoundLimit == [p \in {1} |-> RoundOrder]
\* a limit order of another pool, and the limit map holding both
SecondOrder == [order_id |-> 2, pool_id |-> 2, is_bid |-> FALSE,
                price |-> 1, quantity |-> 3, standing |-> FALSE]
TwoPoolLimit == [p \in {1, 2} |-> IF p = 1 THEN RoundOrder ELSE SecondOrder]

\* a height that is not the round's: the previous one, or the next at height 1
OtherHeight == IF block_height > 1 THEN block_height - 1 ELSE block_height + 1
\* a validator that is not the round's leader
OtherValidator == CHOOSE v \in validators : v # round_leader

\* PreProposals delivered: validator 1's for this height under each signature
\* it can make, its PreProposal of another height, one of a source outside
\* the roster, and one naming validator 1 but signed by validator 2
PreProposalInputs ==
    {GeneratePreProposal(block_height, 1, RoundLimit, EmptyMap, n) : n \in 1..MaxNonce}
    \cup {GeneratePreProposal(OtherHeight, 1, RoundLimit, EmptyMap, 1),
          GeneratePreProposal(block_height, Outsider, EmptyMap, EmptyMap, 1),
          ForgedPreProposal(block_height, 1, RoundLimit, EmptyMap, 2)}

AggregationInputs ==
    {GenerateAggregation(block_height, 1, {}, 1),
     GenerateAggregation(block_height, 2,
         {GeneratePreProposal(block_height, v, RoundLimit, EmptyMap, 1) :
             v \in 1..two_thirds_of_validation_set}, 1),
     GenerateAggregation(OtherHeight, 1, {}, 1),
     ForgedAggregation(block_height, 1, {}, 2)}

\* Proposals delivered: the leader's, one signed and named by another
\* validator, the leader's for another height, one naming the leader but
\* signed by another validator, and the leader's over a PreProposal with two
\* limit orders, as the receiver decoded it: its map in the order the leader
\* signed, or in the other
ProposalInputs ==
    {GenerateProposal(block_height, round_leader, <<>>, <<>>, round_leader, <<>>),
     GenerateProposal(block_height, OtherValidator, <<>>, <<>>, OtherValidator, <<>>),
     GenerateProposal(OtherHeight, round_leader, <<>>, <<>>, round_leader, <<>>),
     GenerateProposal(block_height, round_leader, <<>>, <<>>, OtherValidator, <<>>)}
    \cup Rebuilt(GenerateProposal(block_height, round_leader,
                     <<GeneratePreProposal(block_height, round_leader, TwoPoolLimit,
                                           EmptyMap, 1)>>,
                     <<>>, round_leader, <<[limit |-> <<1, 2>>, searcher |-> <<>>]>>))

Init ==
    /\ block_height = 1
    /\ round_leader = 1
    /\ messages = <<>>
    /\ pre_proposal_set = {}
    /\ pre_proposal_agg_set = {}
    /\ enqueued = <<>>
    /\ last_event = [op |-> "new", peer |-> NoPeer, item |-> Idle, returned |-> None]
    /\ replay = Idle
    /\ matcher = Idle
    /\ current_state = BidAggregationNew(consensus_wait_duration)
    /\ woken = FALSE
    /\ round_state = Idle

\* who delivers what: the leader delivers every input; another validator and
\* the outsider relay the first valid one
Deliveries(inputs, relayed) ==
    ({round_leader} \X inputs) \cup ({OtherValidator, Outsider} \X {relayed})

DeliverPreProposal ==
    \E d \in Deliveries(PreProposalInputs,
                        GeneratePreProposal(block_height, 1, RoundLimit, EmptyMap, 1)) :
        HandlePreProposal(d[1], d[2]) /\ UNCHANGED <<current_state, woken>>
DeliverAggregation ==
    \E d \in Deliveries(AggregationInputs, GenerateAggregation(block_height, 1, {}, 1)) :
        HandlePreProposalAggregation(d[1], d[2]) /\ UNCHANGED <<current_state, woken>>
DeliverProposal ==
    \E d \in Deliveries(ProposalInputs,
                        GenerateProposal(block_height, round_leader, <<>>, <<>>, round_leader, <<>>)) :
        VerifyProposal(d[1], d[2]) /\ UNCHANGED <<current_state, woken>>
\* the chain signals a new block: the next height, with the same or another leader
NewBlock ==
    \E leader \in {round_leader, OtherValidator} :
        block_height < MaxHeight /\ ResetRound(block_height + 1, leader)
                                 /\ UNCHANGED woken

Next == DeliverPreProposal \/ DeliverAggregation \/ DeliverProposal \/ NewBlock

Spec == Init /\ [][Next]_vars

---------------------------------------------------------------------------
(* Claims about the round, checked under Spec. *)

\* the entries of `enqueued` that are the message m
TimesEnqueued(m) == Cardinality({i \in DOMAIN enqueued : enqueued[i] = m})

\* C6: two PreProposals of one round with the same content (height, source,
\* limit orders, searcher orders), whatever their signatures, leave exactly
\* one entry in the seen set and at most one re-broadcast in the queue.
C6_ContentIdempotence ==
    \A x \in pre_proposal_set :
        /\ \A y \in pre_proposal_set :
               PreProposalContent(y) = PreProposalContent(x) => y = x
        /\ Cardinality({i \in DOMAIN enqueued :
               /\ enqueued[i].kind = "PropagatePreProposal"
               /\ PreProposalContent(enqueued[i].payload) = PreProposalContent(x)}) <= 1

\* what the two delivery handlers record, by operation
SeenSetOf(op) ==
    IF op = "handle_pre_proposal" THEN pre_proposal_set ELSE pre_proposal_agg_set
MessageOf(op, item) ==
    IF op = "handle_pre_proposal" THEN PropagatePreProposal(item)
    ELSE PropagatePreProposalAgg(item)
ItemPayload(op, item) ==
    IF op = "handle_pre_proposal" THEN PreProposalPayload(item) ELSE AggregationPayload(item)
DeliveryOps == {"handle_pre_proposal", "handle_pre_proposal_aggregation"}

\* the delivery is acceptable: the sender is in the roster, the stated height
\* is the round's and the signature recovers to the source
Acceptable(op, peer, item) ==
    /\ peer \in validators
    /\ item.block_height = block_height
    /\ RecoverFromPrehash(item.signature, Keccak256(ItemPayload(op, item))) = item.source

\* C7: within a round the seen sets only grow; an acceptable item is recorded
\* and enqueued for re-broadcast on its first delivery, exactly once, and a
\* later delivery of a recorded item enqueues nothing and changes no seen set.
C7_MonotonicExactlyOnce ==
    /\ [][last_event'.op \in DeliveryOps =>
            LET op == last_event'.op
                item == last_event'.item
            IN /\ pre_proposal_set \subseteq pre_proposal_set'
               /\ pre_proposal_agg_set \subseteq pre_proposal_agg_set'
               /\ (Acceptable(op, last_event'.peer, item) /\ item \notin SeenSetOf(op)) =>
                      /\ enqueued' = Append(enqueued, MessageOf(op, item))
                      /\ item \in (IF op = "handle_pre_proposal"
                                   THEN pre_proposal_set' ELSE pre_proposal_agg_set')
               /\ item \in SeenSetOf(op) =>
                      /\ enqueued' = enqueued
                      /\ messages' = messages
                      /\ pre_proposal_set' = pre_proposal_set
                      /\ pre_proposal_agg_set' = pre_proposal_agg_set]_vars
    /\ [](\A x \in pre_proposal_set : TimesEnqueued(PropagatePreProposal(x)) = 1)
    /\ [](\A x \in pre_proposal_agg_set : TimesEnqueued(PropagatePreProposalAgg(x)) = 1)

\* C7 witness: a recorded PreProposal was delivered again by a validator after
\* another item had been enqueued behind it.
C7_Witness ==
    /\ last_event.op = "handle_pre_proposal"
    /\ last_event.peer \in validators
    /\ last_event.item \in pre_proposal_set
    /\ Len(enqueued) = 2
    /\ enqueued[1] = PropagatePreProposal(last_event.item)
    /\ enqueued[2] # PropagatePreProposal(last_event.item)

\* C8: a delivery from a sender outside the roster, or of an item whose height
\* is not the round's, or whose signature does not recover to its source,
\* changes nothing: no seen set, not the queue, not the rest of the context.
C8_RejectedChangesNothing ==
    [][(/\ last_event'.op \in DeliveryOps
        /\ ~Acceptable(last_event'.op, last_event'.peer, last_event'.item))
       => UNCHANGED <<block_height, round_leader, messages, pre_proposal_set,
                      pre_proposal_agg_set, enqueued>>]_vars

\* C8 witness: after something was recorded, a validator delivered a validly
\* signed PreProposal of another height.
C8_Witness ==
    /\ last_event.op = "handle_pre_proposal"
    /\ last_event.peer \in validators
    /\ last_event.item.block_height # block_height
    /\ PreProposalIsValid(last_event.item, last_event.item.block_height)
    /\ pre_proposal_set # {}
    /\ messages # <<>>

\* C9: verify_proposal returns the Proposal only if its source is the round's
\* leader and it is valid for the round's height; otherwise it returns None
\* and enqueues nothing.
C9_LeaderOnlyAcceptance ==
    [][last_event'.op = "verify_proposal" =>
          /\ last_event'.returned # None =>
                 /\ last_event'.item.source = round_leader
                 /\ ProposalIsValid(last_event'.item, block_height)
          /\ last_event'.returned = None => messages' = messages]_vars

\* C10: however often one valid leader Proposal is verified within a round,
\* one PropagateProposal message for it is enqueued.
C10_ProposalRebroadcastOnce ==
    \A i, j \in DOMAIN enqueued :
        (/\ enqueued[i].kind = "PropagateProposal"
         /\ enqueued[j].kind = "PropagateProposal"
         /\ enqueued[i].payload = enqueued[j].payload) => i = j

---------------------------------------------------------------------------
(* One solve of one book: VolumeFillMatcher::new(book), fill() one run of  *)
(* its loop body at a time, then solution().                               *)

\* the most resting orders on one side of a book
MaxOrders == 2

Prices == {1, 2, 3}
Quantities == {1, 3}

\* the price-sorted sides a book can hold: bids non-increasing, asks non-decreasing
BidShapes ==
    UNION {{s \in [1..n -> Prices \X Quantities] :
               \A i \in 1..(n - 1) : s[i][1] >= s[i + 1][1]} : n \in 0..MaxOrders}
AskShapes ==
    UNION {{s \in [1..n -> Prices \X Quantities] :
               \A i \in 1..(n - 1) : s[i][1] <= s[i + 1][1]} : n \in 0..MaxOrders}

\* the AMM snapshots a book can hold: none, or a market price
AmmSnapshots == {Nothing, Some([price |-> 2])}

\* the quantities an AMM order can offer: nothing, less or more than a
\* resting order
AmmQuantities == {0} \cup Quantities
\* the AMM orders order_to_target can return
AmmOrders == {Nothing} \cup {Some([price |-> p, quantity |-> q]) :
                                p \in Prices, q \in AmmQuantities}
\* the end price and the token amounts a filled AMM order can report
AmmFills == Prices \X {<<1, 2>>, <<2, 1>>}

\* the volume after which the AMM returns no further order
MaxAmmVolume == 2

\* the answers the AMM side can give to one run of the loop on matcher m. An
\* answer no call of the run asks for is left at that of NoAmmAnswers: a book
\* without an AMM asks for none, a side that carries a remainder asks for no
\* order, and only a run with an AMM order on one side fills one
AmmAnswers(m) ==
    IF m.amm_price = Nothing \/ m.results.amm_volume >= MaxAmmVolume THEN {NoAmmAnswers}
    ELSE LET Asked(is_bid) ==
                 m.current_partial = Nothing \/ m.current_partial[1].is_bid # is_bid
             Orders(is_bid) == IF Asked(is_bid) THEN AmmOrders ELSE {Nothing}
             Fills(b, a) == IF (b = Nothing) # (a = Nothing) THEN AmmFills
                            ELSE {<<NoAmmAnswers.end_price,
                                    <<NoAmmAnswers.d_t0, NoAmmAnswers.d_t1>>>>}
         IN UNION {{[to_bid |-> b, to_ask |-> a, end_price |-> f[1],
                     d_t0 |-> f[2][1], d_t1 |-> f[2][2]] : f \in Fills(b, a)} :
                      b \in Orders(TRUE), a \in Orders(FALSE)}

\* the book of the given sides; order ids count the bids, then the asks
BookOf(bid_shape, ask_shape, standing, amm) ==
    [id   |-> 1,
     amm  |-> amm,
     bids |-> [i \in 1..Len(bid_shape) |->
                  [order_id |-> i, pool_id |-> 1, is_bid |-> TRUE,
                   price |-> bid_shape[i][1], quantity |-> bid_shape[i][2],
                   standing |-> standing]],
     asks |-> [i \in 1..Len(ask_shape) |->
                  [order_id |-> Len(bid_shape) + i, pool_id |-> 1, is_bid |-> FALSE,
                   price |-> ask_shape[i][1], quantity |-> ask_shape[i][2],
                   standing |-> standing]]]

\* the sides of a book that holds an AMM: at most one resting order
AmmBidShapes == {s \in BidShapes : Len(s) <= 1}
AmmAskShapes == {s \in AskShapes : Len(s) <= 1}

\* the books fill() is run on, without an AMM and with one
Books ==
    {BookOf(b, a, st, Nothing) : b \in BidShapes, a \in AskShapes, st \in BOOLEAN}
    \cup {BookOf(b, a, st, amm) : b \in AmmBidShapes, a \in AmmAskShapes,
                                  st \in BOOLEAN, amm \in AmmSnapshots \ {Nothing}}

InitFill ==
    /\ block_height = 1
    /\ round_leader = 1
    /\ messages = <<>>
    /\ pre_proposal_set = {}
    /\ pre_proposal_agg_set = {}
    /\ enqueued = <<>>
    /\ last_event = [op |-> "new", peer |-> NoPeer, item |-> Idle, returned |-> None]
    /\ replay = Idle
    /\ matcher \in {NewMatcher(book) : book \in Books}
    /\ current_state = Idle
    /\ woken = FALSE
    /\ round_state = Idle

\* one run of the loop body of fill()
Fill ==
    /\ matcher.reason = Nothing
    /\ \E amm \in AmmAnswers(matcher) : matcher' = FillIteration(matcher, amm)
    /\ UNCHANGED <<roundVars, enqueued, last_event, replay, current_state, woken, round_state>>

\* solution(None), once fill() has returned
Solution ==
    /\ matcher.reason # Nothing
    /\ matcher.solution = Nothing
    /\ matcher' = [matcher EXCEPT !.solution = Some(MatcherSolution(matcher, Nothing))]
    /\ UNCHANGED <<roundVars, enqueued, last_event, replay, current_state, woken, round_state>>

NextFill == Fill \/ Solution

SpecFill == InitFill /\ [][NextFill]_vars

EndReasons == {"NoMoreBids", "NoMoreAsks", "BothSidesAMM", "NoLongerCross", "ZeroQuantity"}

RestingOrders == Len(matcher.book.bids) + Len(matcher.book.asks)

---------------------------------------------------------------------------
(* Building a Proposal and replaying it: matching_engine_output            *)
(* (rounds/mod.rs:201-240), build_book (matching-engine/src/lib.rs:43-56)  *)
(* and FinalizationState::new (rounds/finalization.rs:28-72).              *)

\* matching_engine_output, lines 206-214: every limit order of every member
\* PreProposal of every aggregation, one entry per occurrence
FlattenLimit(pre_proposal_aggregation) ==
    UNION {UNION {{<<agg, pre, pool>> : pool \in DOMAIN pre.limit} :
                     pre \in agg.pre_proposals} :
              agg \in pre_proposal_aggregation}

\* the order an entry of the flattened list holds
EntryOrder(entry) == entry[2].limit[entry[3]]

\* filter_quorum_orders: the orders that occur at least two_thirds times
FilterQuorumOrders(input) ==
    {order \in {EntryOrder(e) : e \in input} :
        Cardinality({e \in input : EntryOrder(e) = order}) >= two_thirds_of_validation_set}

\* SortStrategy::ByPriceByVolume: a precedes b by price, then by volume
Precedes(a, b, is_bid) ==
    \/ (IF is_bid THEN a.price > b.price ELSE a.price < b.price)
    \/ (a.price = b.price /\ a.quantity > b.quantity)

RECURSIVE InsertOrder(_, _, _)
\* the sorted sequence with x placed behind every order it does not precede
InsertOrder(x, sorted, is_bid) ==
    IF sorted = <<>> THEN <<x>>
    ELSE IF Precedes(x, Head(sorted), is_bid) THEN <<x>> \o sorted
    ELSE <<Head(sorted)>> \o InsertOrder(x, Tail(sorted), is_bid)

RECURSIVE SortOrders(_, _)
\* sort_bids / sort_asks: a stable sort
SortOrders(orders, is_bid) ==
    IF orders = <<>> THEN <<>>
    ELSE InsertOrder(orders[Len(orders)],
                     SortOrders(SubSeq(orders, 1, Len(orders) - 1), is_bid), is_bid)

\* OrderBook::new with a sort strategy
OrderBookNew(id, amm, bids, asks) ==
    [id |-> id, amm |-> amm,
     bids |-> SortOrders(bids, TRUE), asks |-> SortOrders(asks, FALSE)]

BuildBookUnchecked(id, amm, orders) ==
    LET IsBid(o) == o.is_bid
        IsAsk(o) == ~o.is_bid
    IN Some(OrderBookNew(id, amm, SelectSeq(orders, IsBid), SelectSeq(orders, IsAsk)))

\* build_book on the orders in the order the HashSet hands them out: None when
\* one of the two assertions fails
BuildBook(id, amm, orders) ==
    LET IsBid(o) == o.is_bid
        IsAsk(o) == ~o.is_bid
        bids == SelectSeq(orders, IsBid)
        asks == SelectSeq(orders, IsAsk)
    IN IF /\ \A i \in 1..(Len(bids) - 1) : bids[i].price >= bids[i + 1].price
          /\ \A i \in 1..(Len(asks) - 1) : asks[i].price <= asks[i + 1].price
       THEN Some(OrderBookNew(id, amm, bids, asks))
       ELSE Nothing

RECURSIVE RunFill(_)
\* VolumeFillMatcher::fill: the loop run until it returns (each iteration's
\* state is bound as a value before the next one starts from it)
RunFill(m) ==
    IF m.reason # Nothing THEN m
    ELSE CHOOSE done \in {RunFill(next) : next \in {FillIteration(m, NoAmmAnswers)}} : TRUE

\* the pools of fetch_pool_snapshot; none of them carries an AMM snapshot here
Pools == {1, 2}

\* the solve of one pool: its orders, its book, the solution of the filled matcher
SolvePool(pool, limit) ==
    LET InPool(o) == o.pool_id = pool
        book == BuildBook(pool, Nothing, SelectSeq(limit, InPool))
    IN IF book = Nothing THEN Nothing
       ELSE Some(MatcherSolution(RunFill(NewMatcher(book[1])), Nothing))

\* MatchingEngineHandle::solve_pools on the filtered orders and the pools, each
\* in the order its container hands it out: None when a book's assertion fails
SolvePools(limit, pools) ==
    LET solved == [i \in 1..Len(pools) |-> SolvePool(pools[i], limit)]
    IN IF \E i \in 1..Len(pools) : solved[i] = Nothing THEN Nothing
       ELSE Some([i \in 1..Len(pools) |-> solved[i][1]])

RECURSIVE InsertSolution(_, _)
InsertSolution(x, sorted) ==
    IF sorted = <<>> THEN <<x>>
    ELSE IF x.id < Head(sorted).id THEN <<x>> \o sorted
    ELSE <<Head(sorted)>> \o InsertSolution(x, Tail(sorted))

RECURSIVE SortSolutions(_)
\* Vec<PoolSolution>::sort: by the pool id first
SortSolutions(solutions) ==
    IF solutions = <<>> THEN <<>>
    ELSE InsertSolution(solutions[Len(solutions)],
                        SortSolutions(SubSeq(solutions, 1, Len(solutions) - 1)))

\* the comparison of FinalizationState::new, lines 48-65: zip stops at the
\* shorter list, all() holds of the pairs there are
VerificationResult(proposal_solutions, solution) ==
    LET proposal_solution == SortSolutions(proposal_solutions)
        verification_solution == SortSolutions(solution)
    IN \A i \in 1..Min(Len(proposal_solution), Len(verification_solution)) :
           proposal_solution[i] = verification_solution[i]


\* the limit orders validators hold: three of pool 1, one of pool 2
LimitOrder(id, pool, is_bid, price, quantity) ==
    [order_id |-> id, pool_id |-> pool, is_bid |-> is_bid,
     price |-> price, quantity |-> quantity, standing |-> TRUE]

HighBid == LimitOrder(1, 1, TRUE, 3, 1)
LowBid == LimitOrder(2, 1, TRUE, 2, 3)
LowAsk == LimitOrder(3, 1, FALSE, 1, 3)
OtherPoolAsk == LimitOrder(4, 2, FALSE, 1, 1)

\* the limit maps a validator's PreProposal can carry: one order per pool
LimitOptions ==
    {EmptyMap}
    \cup {[pool \in {1} |-> o] : o \in {HighBid, LowBid, LowAsk}}
    \cup {[pool \in Pools |-> IF pool = 1 THEN HighBid ELSE OtherPoolAsk]}

\* a future that has not been built, or was taken or dropped
NoFuture == [status |-> "none", limit |-> <<>>, output |-> Nothing]

\* the round's aggregations: the first validators of `members` made a
\* PreProposal of their view, the first validators of `aggregators` each
\* aggregated all of those
InitReplay ==
    /\ block_height = 1
    /\ round_leader = 1
    /\ messages = <<>>
    /\ pre_proposal_set = {}
    /\ enqueued = <<>>
    /\ last_event = [op |-> "new", peer |-> NoPeer, item |-> Idle, returned |-> None]
    /\ matcher = Idle
    /\ current_state = Idle
    /\ woken = FALSE
    /\ round_state = Idle
    /\ \E view \in [validators -> LimitOptions], members \in validators,
          aggregators \in validators :
          pre_proposal_agg_set =
              {GenerateAggregation(1, s,
                   {GeneratePreProposal(1, v, view[v], EmptyMap, 1) : v \in 1..members}, 1) :
                  s \in 1..aggregators}
    /\ replay = [phase |-> "aggregated", aggregations |-> {}, limit |-> {},
                 future |-> NoFuture, solver_calls |-> 0, solutions |-> Nothing,
                 proposal |-> None, completed |-> FALSE, local |-> Nothing,
                 verification |-> Nothing]

\* Consensus::matching_engine_output: the orders are flattened and filtered
\* when it is called and moved into the future it returns, in the order the
\* HashMap of filter_quorum_orders hands them out; the async block has not
\* run, so solve_pools has not been called
MatchingEngineOutput(pre_proposal_aggregation) ==
    {[status |-> "unpolled", limit |-> orders, output |-> Nothing] :
        orders \in IterationOrders(FilterQuorumOrders(FlattenLimit(pre_proposal_aggregation)))}

\* the first poll of the future runs the async block up to the await:
\* solve_pools is called and the future is Pending
FirstPoll(future) == [future EXCEPT !.status = "running"]

\* the leader calls matching_engine_output on the aggregations it accepted
LeaderSolve ==
    /\ replay.phase = "aggregated"
    /\ \E future \in MatchingEngineOutput(pre_proposal_agg_set) :
          replay' = [replay EXCEPT
                        !.phase = "leader_solving",
                        !.aggregations = pre_proposal_agg_set,
                        !.limit = {future.limit[i] : i \in DOMAIN future.limit},
                        !.future = future]
    /\ UNCHANGED <<roundVars, enqueued, last_event, matcher, current_state, woken, round_state>>

\* the leader polls the future: Pending at the first poll, which starts the
\* solve, and the output once the engine has resolved
LeaderPoll ==
    /\ replay.phase = "leader_solving"
    /\ replay.future.status \in {"unpolled", "resolved"}
    /\ replay' = IF replay.future.status = "unpolled"
                 THEN [replay EXCEPT !.future = FirstPoll(replay.future),
                                     !.solver_calls = @ + 1]
                 ELSE [replay EXCEPT
                          !.phase = IF replay.future.output = Nothing THEN "leader_panicked"
                                    ELSE "solved",
                          !.solutions = replay.future.output,
                          !.future = NoFuture]
    /\ last_event' = [op |-> "poll", peer |-> NoPeer, item |-> Idle,
                      returned |-> IF replay.future.status = "unpolled" THEN None
                                   ELSE replay.future.output]
    /\ UNCHANGED <<block_height, round_leader, messages, pre_proposal_set,
                   pre_proposal_agg_set, enqueued, matcher, current_state, woken,
                   round_state>>

\* the engine finishes the solve a poll started, on the orders the future
\* holds and the pool snapshots in the order their HashMap hands them out,
\* and wakes the task
EngineResolves ==
    /\ replay.phase \in {"leader_solving", "verifying"}
    /\ replay.future.status = "running"
    /\ \E pools \in IterationOrders(Pools) :
          \E output \in {SolvePools(replay.future.limit, pools)} :
             replay' = [replay EXCEPT !.future.status = "resolved",
                                      !.future.output = output]
    /\ woken' = TRUE
    /\ last_event' = [op |-> "solver", peer |-> NoPeer, item |-> Idle, returned |-> None]
    /\ UNCHANGED <<block_height, round_leader, messages, pre_proposal_set,
                   pre_proposal_agg_set, enqueued, matcher, current_state, round_state>>

\* the solution lists a Proposal can claim: the leader's own output, none,
\* the output short of its last solution, the output with one price changed
ClaimedSolutions(output) ==
    {output, <<>>, SubSeq(output, 1, Len(output) - 1),
     [output EXCEPT ![1].ucp = output[1].ucp + 1]}

\* the leader's Proposal over the aggregations it solved, in some order of
\* the Vec, and a claimed solution list
BuildProposal ==
    /\ replay.phase = "solved"
    /\ \E claimed \in ClaimedSolutions(replay.solutions[1]),
          preproposals \in IterationOrders(replay.aggregations) :
          \E map_order \in VecMapOrders(preproposals) :
             replay' = [replay EXCEPT
                           !.phase = "proposed",
                           !.proposal = GenerateProposal(block_height, round_leader,
                                            preproposals, claimed, round_leader,
                                            map_order)]
    /\ UNCHANGED <<roundVars, enqueued, last_event, matcher, current_state, woken, round_state>>

\* proposal.preproposals().clone().into_iter().collect::<HashSet<_>>()
CollectHashSet(preproposals) == {preproposals[i] : i \in DOMAIN preproposals}

\* FinalizationState::new on another validator: the future over the
\* Proposal's embedded aggregations is built and the waker woken; nothing
\* is solved or compared yet
Finalize ==
    /\ replay.phase = "proposed"
    /\ \E future \in MatchingEngineOutput(CollectHashSet(replay.proposal.preproposals)) :
          replay' = [replay EXCEPT !.phase = "verifying",
                                   !.future = future,
                                   !.completed = FALSE]
    /\ woken' = TRUE
    /\ UNCHANGED <<roundVars, enqueued, last_event, matcher, current_state, round_state>>

\* FinalizationState::poll_transition: the first poll of verification_future
\* starts the solve and is Pending; the poll after the engine resolved runs
\* the closure of new, where output.unwrap() panics on a failed solve and
\* the sorted lists are compared otherwise
VerificationPoll ==
    /\ replay.phase = "verifying"
    /\ replay.future.status \in {"unpolled", "resolved"}
    /\ replay' = IF replay.future.status = "unpolled"
                 THEN [replay EXCEPT !.future = FirstPoll(replay.future),
                                     !.solver_calls = @ + 1]
                 ELSE IF replay.future.output = Nothing
                 THEN [replay EXCEPT !.phase = "replay_panicked", !.future = NoFuture]
                 ELSE [replay EXCEPT
                          !.phase = "finalized",
                          !.future = NoFuture,
                          !.local = replay.future.output,
                          !.completed = TRUE,
                          !.verification =
                              Some(VerificationResult(replay.proposal.solutions,
                                                      replay.future.output[1]))]
    /\ last_event' = [op |-> "poll_transition", peer |-> NoPeer, item |-> Idle,
                      returned |-> None]
    /\ UNCHANGED <<block_height, round_leader, messages, pre_proposal_set,
                   pre_proposal_agg_set, enqueued, matcher, current_state, woken,
                   round_state>>

\* an aggregation that arrives while a solve is under way
LateAggregation == GenerateAggregation(block_height, round_leader, {}, 2)

\* handle_message while the leader's future is in flight: the aggregation is
\* recorded in the seen set; the future owns the orders it was built with
DeliverWhileSolving ==
    /\ replay.phase = "leader_solving"
    /\ LateAggregation \notin pre_proposal_agg_set
    /\ HandlePreProposalAggregation(round_leader, LateAggregation)
    /\ UNCHANGED <<current_state, woken>>

\* handle_message while the solve of the verification is under way:
\* FinalizationState::on_consensus_message ignores every event
DeliverWhileVerifying ==
    /\ replay.phase = "verifying"
    /\ replay.future.status = "running"
    /\ last_event.op # "on_consensus_message"
    /\ last_event' = [op |-> "on_consensus_message", peer |-> round_leader,
                      item |-> LateAggregation, returned |-> None]
    /\ UNCHANGED <<block_height, round_leader, messages, pre_proposal_set,
                   pre_proposal_agg_set, enqueued, replay, matcher, current_state,
                   woken, round_state>>

\* reset_round while a future is in flight: the phase object that owns the
\* future is replaced, the future is dropped and its result never computed
ResetWhileInFlight ==
    /\ replay.phase \in {"leader_solving", "verifying"}
    /\ block_height < MaxHeight
    /\ block_height' = block_height + 1
    /\ round_leader' = OtherValidator
    /\ last_event' = [op |-> "reset_round", peer |-> OtherValidator,
                      item |-> Idle, returned |-> None]
    /\ pre_proposal_set' = {}
    /\ pre_proposal_agg_set' = {}
    /\ enqueued' = <<>>
    /\ replay' = [replay EXCEPT !.phase = "reset", !.future = NoFuture]
    /\ UNCHANGED <<messages, matcher, current_state, woken, round_state>>

NextReplay ==
    \/ LeaderSolve \/ LeaderPoll \/ EngineResolves \/ BuildProposal \/ Finalize
    \/ VerificationPoll \/ DeliverWhileSolving \/ DeliverWhileVerifying
    \/ ResetWhileInFlight

SpecReplay == InitReplay /\ [][NextReplay]_vars

---------------------------------------------------------------------------
(* Claims about building and replaying a Proposal, checked under SpecReplay. *)

\* the validators whose PreProposals, in some aggregation, hold the order
SourcesHolding(aggregations, order) ==
    {e[2].source : e \in {x \in FlattenLimit(aggregations) : EntryOrder(x) = order}}

\* C1: an order in the PreProposals of fewer than quorum(N) distinct
\* validators is absent from the filtered list handed to the solver.
C1_QuorumOrderFiltering ==
    replay.phase # "aggregated" =>
        \A order \in replay.limit :
            Cardinality(SourcesHolding(replay.aggregations, order))
                >= two_thirds_of_validation_set

\* C2: when the leader's Proposal claims the solutions the leader's own solve
\* of the quorum-filtered orders produced, the replay by another validator
\* ends with the verification result true.
C2_ReplayAgreement ==
    (/\ replay.phase \in {"finalized", "replay_panicked"}
     /\ replay.proposal.solutions = replay.solutions[1])
        => replay.verification = Some(TRUE)

\* C3: the verification result is false whenever the sorted claimed solutions
\* differ from the sorted recomputed solutions, lists of different lengths
\* included.
C3_ReplayReportsMismatch ==
    (/\ replay.phase = "finalized"
     /\ SortSolutions(replay.proposal.solutions) # SortSolutions(replay.local[1]))
        => replay.verification = Some(FALSE)

---------------------------------------------------------------------------
(* Arrival order (Spec). *)

\* the payloads of the messages of one kind pushed since the last reset_round:
\* the items the round accepted, in the order it accepted them
AcceptedOf(kind) ==
    LET at == {i \in DOMAIN enqueued : enqueued[i].kind = kind}
    IN {enqueued[i].payload : i \in at}

RECURSIVE RecordPreProposals(_, _)
\* the seen set after handle_pre_proposal received `items` in this order from
\* the leader, starting from `set`
RecordPreProposals(items, set) ==
    IF items = <<>> THEN set
    ELSE RecordPreProposals(Tail(items),
             HandleProposalVerification(round_leader, Head(items), set,
                 PreProposalIsValid(Head(items), block_height),
                 PreProposalSetContains(set, Head(items)),
                 PropagatePreProposal(Head(items))).proposal_set)

RECURSIVE RecordAggregations(_, _)
\* the same for handle_pre_proposal_aggregation
RecordAggregations(items, set) ==
    IF items = <<>> THEN set
    ELSE RecordAggregations(Tail(items),
             HandleProposalVerification(round_leader, Head(items), set,
                 AggregationIsValid(Head(items), block_height),
                 AggregationSetContains(set, Head(items)),
                 PropagatePreProposalAgg(Head(items))).proposal_set)

\* matching_engine_output, lines 206-216: the quorum-filtered limit orders of
\* a set of aggregations
QuorumLimit(pre_proposal_aggregation) ==
    FilterQuorumOrders(FlattenLimit(pre_proposal_aggregation))

\* C11: whatever the order in which the items the round accepted are delivered
\* and recorded, the seen sets are the ones the round holds, and so are the
\* quorum-filtered orders matching_engine_output computes from them.
C11_ArrivalOrderInsensitive ==
    /\ \A order \in IterationOrders(AcceptedOf("PropagatePreProposalAgg")) :
           /\ RecordAggregations(order, {}) = pre_proposal_agg_set
           /\ QuorumLimit(RecordAggregations(order, {})) = QuorumLimit(pre_proposal_agg_set)
    /\ \A order \in IterationOrders(AcceptedOf("PropagatePreProposal")) :
           /\ RecordPreProposals(order, {}) = pre_proposal_set
           /\ QuorumLimit({GenerateAggregation(block_height, round_leader,
                               RecordPreProposals(order, {}), 1)})
                  = QuorumLimit({GenerateAggregation(block_height, round_leader,
                                    pre_proposal_set, 1)})

\* C11 witness: two aggregations were accepted, the one without orders first,
\* and the order of the second reaches the quorum.
C11_Witness ==
    /\ Len(enqueued) = 2
    /\ enqueued[1].kind = "PropagatePreProposalAgg"
    /\ enqueued[2].kind = "PropagatePreProposalAgg"
    /\ enqueued[1].payload.pre_proposals = {}
    /\ QuorumLimit(pre_proposal_agg_set) = {RoundOrder}
    /\ QuorumLimit({enqueued[1].payload}) = {}

---------------------------------------------------------------------------
(* Stale heights (Spec). *)

\* the height an item states: Proposal.ethereum_height, block_height otherwise
StatedHeight(item) ==
    IF "ethereum_height" \in DOMAIN item THEN item.ethereum_height ELSE item.block_height

HandlerOps == DeliveryOps \cup {"verify_proposal"}

\* C13: in every state of a round, also after reset_round, the delivery of a
\* PreProposal, PreProposalAggregation or Proposal whose stated height is not
\* the round's records nothing, enqueues nothing and returns nothing; every
\* recorded item states the round's height.
C13_StaleHeightRejected ==
    /\ [](\A item \in pre_proposal_set \cup pre_proposal_agg_set :
              StatedHeight(item) = block_height)
    /\ [][(/\ last_event'.op \in HandlerOps
           /\ StatedHeight(last_event'.item) # block_height)
          => /\ UNCHANGED <<block_height, round_leader, messages, pre_proposal_set,
                            pre_proposal_agg_set, enqueued>>
             /\ last_event'.returned = None]_vars

\* C13 witness: after reset_round to height 2 and an acceptance there, a
\* validator delivered a validly signed aggregation of the superseded height 1.
C13_Witness ==
    /\ block_height = 2
    /\ last_event.op = "handle_pre_proposal_aggregation"
    /\ last_event.peer \in validators
    /\ last_event.item.block_height = 1
    /\ AggregationIsValid(last_event.item, 1)
    /\ last_event.item \notin pre_proposal_agg_set
    /\ pre_proposal_agg_set # {}

---------------------------------------------------------------------------
(* The round state machine (rounds/mod.rs, rounds/finalization.rs): the    *)
(* phase object, handle_message, poll_next and reset_round of a validator  *)
(* that does not lead the rounds the chain elects here. The phases whose   *)
(* files are not part of the source tree (bid_aggregation,                 *)
(* pre_proposal_aggregation, proposal) follow section 4.1 of the           *)
(* specification; Commit and Submit belong to the round/ machine below.    *)

\* Consensus.signer.my_id
my_id == NumValidators
\* Consensus::i_am_leader
i_am_leader == round_leader = my_id

\* the thread has unwound out of poll_next
Panicked == [phase |-> "Panicked"]

PreProposalAggregationNew == [phase |-> "PreProposalAggregation"]
ProposalNew == [phase |-> "Proposal", proposal |-> None]

\* the future matching_engine_output(..).map(..) builds: an async block runs
\* nothing until its first poll ("unpolled"), then the solve is under way and
\* the task's waker is registered ("running") until the solver delivers its
\* eyre::Result ("resolved": Some(solutions) for Ok, Nothing for Err)
NewFuture == [status |-> "unpolled", output |-> Nothing]

\* FinalizationState::new: the phase object and whether the waker was woken
FinalizationStateNew(proposal) ==
    [state |-> [phase |-> "Finalization", proposal |-> proposal,
                verification_future |-> NewFuture, completed |-> FALSE,
                result |-> Nothing],
     wake |-> TRUE]

\* what a poll_transition call yields: the Poll value ("Pending",
\* "ReadySome", "ReadyNone", or "Panic" when the call unwinds), the phase
\* object as the call leaves it, the successor it returns, the messages it
\* pushed on Consensus.messages and whether it woke the task's waker
Transition(poll, state, next, pushed, wake) ==
    [poll |-> poll, state |-> state, next |-> next, pushed |-> pushed, wake |-> wake]

\* BidAggregationState::poll_transition: once the wait timer has expired the
\* validator's own PreProposal is signed and enqueued
BidAggregationPollTransition(state) ==
    IF state.remaining = 0
    THEN Transition("ReadySome", state, PreProposalAggregationNew,
             <<PropagatePreProposal(
                   GeneratePreProposal(block_height, my_id, RoundLimit, EmptyMap, 1))>>,
             FALSE)
    ELSE Transition("Pending", state, None, <<>>, FALSE)

\* PreProposalAggregationState::poll_transition: a validator that is not the
\* leader goes on to wait for the Proposal without producing anything; the
\* leader's solve is the subject of SpecReplay
PreProposalAggregationPollTransition(state) ==
    IF i_am_leader THEN Transition("Pending", state, None, <<>>, FALSE)
    ELSE Transition("ReadySome", state, ProposalNew, <<>>, FALSE)

\* ProposalState::poll_transition: the Proposal verify_proposal returned is
\* handed to FinalizationState::new
ProposalPollTransition(state) ==
    IF state.proposal = None THEN Transition("Pending", state, None, <<>>, FALSE)
    ELSE LET new == FinalizationStateNew(state.proposal)
         IN Transition("ReadySome", state, new.state, <<>>, new.wake)

FinalizationPollTransitionRestarts(state) ==
    IF state.completed THEN Transition("ReadySome", state, ProposalNew, <<>>, FALSE)
    ELSE IF state.verification_future.status = "resolved"
    THEN Transition("ReadyNone", [state EXCEPT !.completed = TRUE], None, <<>>, FALSE)
    ELSE Transition("Pending",
             [state EXCEPT !.verification_future.status = "running"], None, <<>>, FALSE)

\* FinalizationState::poll_transition
FinalizationPollTransition(state) ==
    LET future == state.verification_future
    IN IF state.completed THEN Transition("ReadyNone", state, None, <<>>, FALSE)
       ELSE IF future.status = "resolved"
       THEN IF future.output = Nothing
            THEN Transition("Panic", state, None, <<>>, FALSE)
            ELSE Transition("ReadyNone",
                     [state EXCEPT !.completed = TRUE,
                                   !.result = Some(VerificationResult(
                                                  state.proposal.solutions,
                                                  future.output[1]))],
                     None, <<>>, FALSE)
       ELSE Transition("Pending",
                [state EXCEPT !.verification_future.status = "running"],
                None, <<>>, FALSE)

\* ConsensusState::poll_transition, dispatched on the phase object
PollTransition(state) ==
    CASE state.phase = "BidAggregation" -> BidAggregationPollTransition(state)
      [] state.phase = "PreProposalAggregation" -> PreProposalAggregationPollTransition(state)
      [] state.phase = "Proposal" -> ProposalPollTransition(state)
      [] state.phase = "Finalization" -> FinalizationPollTransition(state)

PopBack(queue) ==
    IF queue = <<>> THEN [returned |-> None, messages |-> queue]
    ELSE [returned |-> queue[Len(queue)], messages |-> SubSeq(queue, 1, Len(queue) - 1)]

\* VecDeque::pop_front, lines 115-119: the message returned and the queue left
PopFront(queue) ==
    IF queue = <<>> THEN [returned |-> None, messages |-> queue]
    ELSE [returned |-> Head(queue), messages |-> Tail(queue)]

\* RoundStateMachine::poll_next: one poll_transition of the current phase,
\* which is replaced only on Ready(Some(_)); then one message is popped, and
\* Poll::Pending is returned when there is none. `returned` is None for
\* Poll::Pending. After Ready(Some(_)) the stream's consumer polls again.
PollNext ==
    /\ current_state # Panicked
    /\ \E t \in {PollTransition(current_state)} :
          \E popped \in {PopFront(messages \o t.pushed)} :
             /\ Len(messages \o t.pushed) <= MaxQueue
             /\ IF t.poll = "Panic"
                THEN /\ current_state' = Panicked
                     /\ woken' = FALSE
                     /\ UNCHANGED <<messages, enqueued>>
                     /\ last_event' = [op |-> "poll_next", peer |-> NoPeer, item |-> Idle,
                                       returned |-> None, poll |-> t.poll]
                ELSE /\ current_state' = IF t.poll = "ReadySome" THEN t.next ELSE t.state
                     /\ messages' = popped.messages
                     /\ enqueued' = enqueued \o t.pushed
                     /\ woken' = (t.wake \/ popped.returned # None)
                     /\ last_event' = [op |-> "poll_next", peer |-> NoPeer, item |-> Idle,
                                       returned |-> popped.returned, poll |-> t.poll]
    /\ UNCHANGED <<block_height, round_leader, pre_proposal_set, pre_proposal_agg_set,
                   replay, matcher, round_state>>

\* StromConsensusEvent
StromConsensusEvent(kind, peer, item) == [kind |-> kind, peer |-> peer, item |-> item]

\* a message the active phase does not expect: nothing changes
IgnoreMessage(event) ==
    /\ last_event' = [op |-> "on_consensus_message", peer |-> event.peer,
                      item |-> event.item, returned |-> None]
    /\ UNCHANGED <<block_height, round_leader, messages, pre_proposal_set,
                   pre_proposal_agg_set, enqueued, replay, matcher, round_state,
                   current_state>>

HandleMessageProposalInFinalization(event) ==
    /\ current_state # Panicked
    /\ CASE current_state.phase = "PreProposalAggregation" /\ event.kind = "PreProposal" ->
                HandlePreProposal(event.peer, event.item) /\ UNCHANGED current_state
         [] current_state.phase = "PreProposalAggregation" /\ event.kind = "PreProposalAgg" ->
                HandlePreProposalAggregation(event.peer, event.item)
                /\ UNCHANGED current_state
         [] current_state.phase \in {"Proposal", "Finalization"} /\ event.kind = "Proposal" ->
                /\ VerifyProposal(event.peer, event.item)
                /\ current_state' =
                       IF VerifyProposalResult(event.peer, event.item) = None
                       THEN current_state
                       ELSE [current_state EXCEPT !.proposal = event.item]
         [] OTHER -> IgnoreMessage(event)

\* RoundStateMachine::handle_message: the event goes to the current phase's
\* on_consensus_message. PreProposalAggregation records PreProposals and
\* aggregations, Proposal keeps what verify_proposal returns, and
\* FinalizationState::on_consensus_message does nothing
HandleMessage(event) ==
    /\ current_state # Panicked
    /\ CASE current_state.phase = "PreProposalAggregation" /\ event.kind = "PreProposal" ->
                HandlePreProposal(event.peer, event.item) /\ UNCHANGED current_state
         [] current_state.phase = "PreProposalAggregation" /\ event.kind = "PreProposalAgg" ->
                HandlePreProposalAggregation(event.peer, event.item)
                /\ UNCHANGED current_state
         [] current_state.phase = "Proposal" /\ event.kind = "Proposal" ->
                /\ VerifyProposal(event.peer, event.item)
                /\ current_state' =
                       IF VerifyProposalResult(event.peer, event.item) = None
                       THEN current_state
                       ELSE [current_state EXCEPT !.proposal = event.item]
         [] OTHER -> IgnoreMessage(event)

\* the wait timer of BidAggregationState runs down; its expiry wakes the task
Tick ==
    /\ current_state.phase = "BidAggregation"
    /\ current_state.remaining > 0
    /\ current_state' = [current_state EXCEPT !.remaining = @ - 1]
    /\ woken' = (woken \/ current_state.remaining = 1)
    /\ last_event' = [op |-> "timer", peer |-> NoPeer, item |-> Idle, returned |-> None]
    /\ UNCHANGED <<block_height, round_leader, messages, pre_proposal_set,
                   pre_proposal_agg_set, enqueued, replay, matcher, round_state>>

\* the solver delivers the result of the solve a poll started: the solutions
\* of solve_pools on the quorum-filtered orders of the Proposal's embedded
\* aggregations, or an error; the registered waker is woken
SolverResolves ==
    /\ current_state.phase = "Finalization"
    /\ current_state.verification_future.status = "running"
    /\ LET limit == QuorumLimit(CollectHashSet(current_state.proposal.preproposals))
       IN \E orders \in IterationOrders(limit), pools \in IterationOrders(Pools),
             ok \in BOOLEAN :
              \E output \in {IF ok THEN SolvePools(orders, pools) ELSE Nothing} :
                 current_state' = [current_state EXCEPT
                                      !.verification_future =
                                          [status |-> "resolved", output |-> output]]
    /\ woken' = TRUE
    /\ last_event' = [op |-> "solver", peer |-> NoPeer, item |-> Idle, returned |-> None]
    /\ UNCHANGED <<block_height, round_leader, messages, pre_proposal_set,
                   pre_proposal_agg_set, enqueued, replay, matcher, round_state>>

\* the events the network hands to the machine: the leader's PreProposal,
\* aggregation and Proposal for the round's height and for another height
MachineEvents ==
    LET pre == GeneratePreProposal(block_height, round_leader, RoundLimit, EmptyMap, 1)
        agg == GenerateAggregation(block_height, round_leader, {pre}, 1)
    IN {StromConsensusEvent("PreProposal", round_leader, pre),
        StromConsensusEvent("PreProposalAgg", round_leader, agg),
        StromConsensusEvent("Proposal", round_leader,
            GenerateProposal(block_height, round_leader, <<agg>>, <<>>, round_leader,
                             <<[limit |-> <<>>, searcher |-> <<>>]>>)),
        StromConsensusEvent("Proposal", round_leader,
            GenerateProposal(OtherHeight, round_leader, <<>>, <<>>, round_leader, <<>>))}

\* the caller delivers an event and polls the machine afterwards
Deliver == \E event \in MachineEvents : HandleMessage(event) /\ woken' = TRUE

\* the caller resets the round on a new block and polls the machine afterwards
MachineNewBlock ==
    \E leader \in {round_leader, OtherValidator} :
        /\ current_state # Panicked
        /\ block_height < MaxHeight
        /\ leader # my_id
        /\ ResetRound(block_height + 1, leader)
        /\ woken' = TRUE

NextMachine == PollNext \/ Deliver \/ Tick \/ SolverResolves \/ MachineNewBlock

SpecMachine == Init /\ [][NextMachine]_vars

\* the caller polls when the task was woken, the timer runs, the solver
\* delivers
SpecMachineFair ==
    /\ SpecMachine
    /\ WF_vars(woken /\ PollNext)
    /\ WF_vars(Tick)
    /\ WF_vars(SolverResolves)

---------------------------------------------------------------------------
(* Claims about the round state machine, checked under SpecMachine. *)

\* C12: a message poll_next returns was pushed since the last reset_round,
\* never before it; and right after reset_round the phase holds no solver or
\* verification computation of the superseded round.
C12_NothingSupersededSurfaces ==
    /\ (last_event.op = "poll_next" /\ last_event.returned # None)
           => \E i \in DOMAIN enqueued : enqueued[i] = last_event.returned
    /\ last_event.op = "reset_round" => current_state.phase = "BidAggregation"

\* C14: right after reset_round(new_height, new_leader), whatever the phase
\* was, the phase is a fresh BidAggregation with the configured wait, the
\* height and the leader are the new ones, and nothing the previous round
\* accumulated is left: no seen set and no queued message.
C14_ResetPostcondition ==
    [][block_height' # block_height =>
          /\ last_event'.op = "reset_round"
          /\ current_state' = BidAggregationNew(consensus_wait_duration)
          /\ block_height' = block_height + 1
          /\ round_leader' = last_event'.peer
          /\ pre_proposal_set' = {}
          /\ pre_proposal_agg_set' = {}
          /\ messages' = <<>>]_vars

\* C15: when a poll_next call returns, the current phase is not ready to
\* transition: every transition that was immediately available has been made
\* within the call.
C15_AdvanceChainsTransitions ==
    [][(last_event'.op = "poll_next" /\ current_state' # Panicked) =>
          PollTransition(current_state').poll # "ReadySome"]_vars

\* C16: a poll_next call returns every message queued at that point, in the
\* order of their enqueueing, and leaves the outbound queue empty.
C16_AdvanceDrainsQueue ==
    [][(last_event'.op = "poll_next" /\ current_state' # Panicked) =>
          messages' = <<>>]_vars

\* C16 as the code has it: a poll_next call returns one message, the oldest
\* of the queue as the call's transition step left it, and leaves the others
\* queued in their order; it returns Poll::Pending only on an empty queue.
C16_AdvancePopsOldest ==
    [][(last_event'.op = "poll_next" /\ current_state' # Panicked) =>
          LET queue == messages \o Pushed(enqueued, enqueued')
          IN IF queue = <<>>
             THEN last_event'.returned = None /\ messages' = <<>>
             ELSE last_event'.returned = Head(queue) /\ messages' = Tail(queue)]_vars

\* C16 witness: poll_next returned a message and a message enqueued after it
\* is still queued.
C16_Witness ==
    /\ last_event.op = "poll_next"
    /\ last_event.returned # None
    /\ Len(messages) = 1
    /\ \E i, j \in DOMAIN enqueued :
           i < j /\ enqueued[i] = last_event.returned /\ enqueued[j] = messages[1]

\* the round has completed: Finalization's verification has finished and
\* poll_transition has yielded Poll::Ready(None)
Completed == current_state.phase = "Finalization" /\ current_state.completed

\* C17: once the round has completed, every poll_next and every delivery
\* leaves the phase object as it is, records nothing and enqueues nothing;
\* only reset_round, which changes the height, ends this.
C17_TerminalUntilReset ==
    [][(Completed /\ block_height' = block_height) =>
          /\ current_state' = current_state
          /\ enqueued' = enqueued
          /\ pre_proposal_set' = pre_proposal_set
          /\ pre_proposal_agg_set' = pre_proposal_agg_set
          /\ \/ messages' = messages
             \/ last_event'.op = "poll_next" /\ messages' = Tail(messages)]_vars

\* C17 witness: in a completed round the leader's valid Proposal for the
\* round's height was delivered, and the phase is still the completed one.
C17_Witness ==
    /\ Completed
    /\ last_event.op = "on_consensus_message"
    /\ last_event.peer = round_leader
    /\ "ethereum_height" \in DOMAIN last_event.item
    /\ VerifyProposalResult(last_event.peer, last_event.item) = last_event.item

---------------------------------------------------------------------------
(* Liveness of Finalization, checked under SpecMachineFair. *)

InFinalization == current_state.phase = "Finalization"
\* reset_round has put the machine back into the first phase
RoundWasReset == current_state.phase = "BidAggregation"

\* C18: a round that enters Finalization completes its verification and
\* reports the result, whenever the machine is polled fairly and the solver
\* resolves, unless reset_round ends the round first.
C18_FinalizationLiveness == InFinalization ~> (Completed \/ RoundWasReset)

---------------------------------------------------------------------------
(* The Commit and Submit states of the round/ state machine                *)
(* (crates/consensus/src/round/commit.rs, submit.rs). A CommitState exists *)
(* only as CommitState::new builds it, with vote at None and nothing in    *)
(* commit.rs assigning it afterwards; SubmitState::new is todo!(), so no   *)
(* SubmitState is ever built and its methods never run.                    *)

\* enum CommitVote
CommitVote == {"Commit", "Nil"}

\* the bundles handed to CommitState::new: the orders a bundle settles
VanillaBundles == SUBSET {HighBid, LowBid, LowAsk, OtherPoolAsk}

\* CommitState::new; the waker is the variable `woken`
CommitStateNew(commited_bundle) ==
    [state |-> "Commit", best_bundle |-> commited_bundle, vote |-> Nothing]

\* RoundAction::Completed(CompletedState)
CompletedState == [state |-> "Completed"]
\* the thread has unwound out of a todo!()
RoundPanicked == [state |-> "Panicked"]

\* Poll::Ready((action, ConsensusState, message)) and Poll::Pending
Ready(action, consensus_state, message) ==
    [action |-> action, consensus_state |-> consensus_state, message |-> message]
Pending == [pending |-> TRUE]

\* CommitState::should_transition: the value returned
CommitShouldTransition(state) ==
    IF state.vote # Nothing
    THEN Ready(CompletedState, "WAITING_NEXT_BLOCK", Some("Commit"))
    ELSE Pending

\* the other variables do not take part in SpecRound
roundIdle == <<block_height, round_leader, messages, pre_proposal_set,
               pre_proposal_agg_set, enqueued, replay, matcher, current_state>>

\* StateTransition::should_transition polled on the CommitState: on
\* Poll::Ready the machine goes to the state the RoundAction names
ShouldTransition ==
    /\ round_state.state = "Commit"
    /\ \E r \in {CommitShouldTransition(round_state)} :
          /\ round_state' = IF r = Pending THEN round_state ELSE r.action
          /\ last_event' = [op |-> "should_transition", peer |-> NoPeer,
                            item |-> round_state, returned |-> r]
    /\ UNCHANGED <<roundIdle, woken>>

\* CommitState::on_proposal: the waker is woken and todo!() panics
OnProposal ==
    /\ round_state.state = "Commit"
    /\ \E proposal \in ProposalInputs :
          last_event' = [op |-> "on_proposal", peer |-> NoPeer,
                         item |-> round_state, proposal |-> proposal,
                         returned |-> None]
    /\ round_state' = RoundPanicked
    /\ woken' = TRUE
    /\ UNCHANGED roundIdle

\* SubmitState::new, called to enter Submit: todo!() panics before any
\* SubmitState exists
SubmitStateNew ==
    /\ round_state.state = "Commit"
    /\ round_state' = RoundPanicked
    /\ last_event' = [op |-> "SubmitState::new", peer |-> NoPeer,
                      item |-> round_state, returned |-> None]
    /\ UNCHANGED <<roundIdle, woken>>

InitRound ==
    /\ block_height = 1
    /\ round_leader = 1
    /\ messages = <<>>
    /\ pre_proposal_set = {}
    /\ pre_proposal_agg_set = {}
    /\ enqueued = <<>>
    /\ last_event = [op |-> "new", peer |-> NoPeer, item |-> Idle, returned |-> None]
    /\ replay = Idle
    /\ matcher = Idle
    /\ current_state = Idle
    /\ woken = FALSE
    /\ round_state \in {CommitStateNew(bundle) : bundle \in VanillaBundles}

NextRound == ShouldTransition \/ OnProposal \/ SubmitStateNew

SpecRound == InitRound /\ [][NextRound]_vars

---------------------------------------------------------------------------
(* Claims about Commit and Submit, checked under SpecRound. *)

\* C19: a node leaves the Commit state only for the Submit state, emitting
\* its commit vote, once a quorum of commit votes has been observed.
C19_CommitExitsToSubmit ==
    [][(round_state.state = "Commit" /\ round_state'.state # "Commit")
          => (round_state'.state = "Submit"
              /\ last_event'.returned # None
              /\ last_event'.returned # Pending
              /\ last_event'.returned.message = Some("Commit"))]_vars

---------------------------------------------------------------------------
(* Deliveries a phase does not expect (SpecMachine). *)

\* the kind of event an item travels in
KindOf(item) ==
    IF "ethereum_height" \in DOMAIN item THEN "Proposal"
    ELSE IF "pre_proposals" \in DOMAIN item THEN "PreProposalAgg"
    ELSE "PreProposal"

\* the message kinds a phase handles
Expects(phase, kind) ==
    \/ phase = "PreProposalAggregation" /\ kind \in {"PreProposal", "PreProposalAgg"}
    \/ phase = "Proposal" /\ kind = "Proposal"

\* C22: a delivery of a message the active phase does not expect, and in
\* Finalization a delivery of any message, leaves the phase object, the
\* height, the leader, the seen sets and the outbound queue unchanged.
C22_IrrelevantDeliveryIsNoOp ==
    [][(/\ last_event'.op \in HandlerOps \cup {"on_consensus_message"}
        /\ current_state # Panicked
        /\ \/ InFinalization
           \/ ~Expects(current_state.phase, KindOf(last_event'.item)))
       => /\ current_state' = current_state
          /\ UNCHANGED <<block_height, round_leader, messages, pre_proposal_set,
                         pre_proposal_agg_set, enqueued>>]_vars

\* C22 witness: while the verification of Finalization was still under way,
\* the leader's valid Proposal for the round's height was delivered.
C22_Witness ==
    /\ InFinalization
    /\ current_state.verification_future.status = "running"
    /\ last_event.op = "on_consensus_message"
    /\ last_event.peer = round_leader
    /\ KindOf(last_event.item) = "Proposal"
    /\ VerifyProposalResult(last_event.peer, last_event.item) = last_event.item

---------------------------------------------------------------------------
(* Calls of single functions. last_event holds the call: its input in      *)
(* `item`, its result in `returned`; the other variables take no part.     *)

callIdle == <<block_height, round_leader, messages, pre_proposal_set,
              pre_proposal_agg_set, enqueued, replay, matcher, current_state,
              woken, round_state>>

InitCallIdle ==
    /\ block_height = 1
    /\ round_leader = 1
    /\ messages = <<>>
    /\ pre_proposal_set = {}
    /\ pre_proposal_agg_set = {}
    /\ enqueued = <<>>
    /\ replay = Idle
    /\ matcher = Idle
    /\ current_state = Idle
    /\ woken = FALSE
    /\ round_state = Idle

---------------------------------------------------------------------------
(* The quorum threshold (SpecQuorum): Consensus::new with a roster of any  *)
(* length up to MaxRoster, then two_thirds_of_validation_set.              *)

\* the longest validator roster
MaxRoster == 60

InitQuorum ==
    /\ InitCallIdle
    /\ \E len \in 0..MaxRoster :
          last_event = [op |-> "new", peer |-> NoPeer, item |-> len, returned |-> None]

CallTwoThirds ==
    /\ last_event.op = "new"
    /\ last_event' = [op |-> "two_thirds_of_validation_set", peer |-> NoPeer,
                      item |-> last_event.item, returned |-> TwoThirdsOf(last_event.item)]
    /\ UNCHANGED callIdle

NextQuorum == CallTwoThirds

SpecQuorum == InitQuorum /\ [][NextQuorum]_vars

\* C23: for a roster of N validators, N = 0 and N = 1 included,
\* two_thirds_of_validation_set is the least integer k with 3k >= 2N, that
\* is ceil(2N/3): 2 for N = 3, 4 for N = 5, 5 for N = 7.
C23_QuorumThreshold ==
    last_event.op = "two_thirds_of_validation_set" =>
        LET n == last_event.item
            k == last_event.returned
        IN /\ 3 * k >= 2 * n
           /\ k = 0 \/ 3 * (k - 1) < 2 * n
           /\ n = 0 => k = 0
           /\ n = 1 => k = 1
           /\ n = 3 => k = 2
           /\ n = 5 => k = 4
           /\ n = 7 => k = 5

\* C23 witness: the threshold of a roster of five has been computed and is
\* four.
C23_Witness ==
    /\ last_event.op = "two_thirds_of_validation_set"
    /\ last_event.item = 5
    /\ last_event.returned = 4

---------------------------------------------------------------------------
(* Book construction (SpecBook): build_book on the orders of one pool, in  *)
(* every order a HashSet can hand them out.                                *)

HighAsk == LimitOrder(5, 1, FALSE, 2, 1)
\* a bid at the price of LowBid with a smaller volume
SmallBid == LimitOrder(6, 1, TRUE, 2, 1)

BookOrders == {HighBid, LowBid, SmallBid, LowAsk, HighAsk}

\* the HashSet<BookOrder> handed to build_book, as the sequence its
\* into_iter yields
OrderSequences ==
    UNION {IterationOrders(S) :
              S \in {T \in SUBSET BookOrders : Cardinality(T) <= 2 * MaxOrders}}

InitBook ==
    /\ InitCallIdle
    /\ \E orders \in OrderSequences :
          last_event = [op |-> "new", peer |-> NoPeer, item |-> orders, returned |-> None]

CallBuildBook ==
    /\ last_event.op = "new"
    /\ last_event' = [op |-> "build_book", peer |-> NoPeer, item |-> last_event.item,
                      returned |-> BuildBook(1, Nothing, last_event.item)]
    /\ UNCHANGED callIdle

NextBook == CallBuildBook

SpecBook == InitBook /\ [][NextBook]_vars

\* the prices of a sequence of orders never rise (bids) or never fall (asks)
PriceSorted(orders, is_bid) ==
    \A i \in 1..(Len(orders) - 1) :
        IF is_bid THEN orders[i].price >= orders[i + 1].price
        ELSE orders[i].price <= orders[i + 1].price

\* the orders of one side in a sequence, in their order there
SideOf(orders, is_bid) ==
    LET OnSide(o) == o.is_bid = is_bid
    IN SelectSeq(orders, OnSide)

\* C24: a book build_book returns has its bids non-increasing and its asks
\* non-decreasing by price, and holds the orders it was given; build_book
\* returns no book when the bids it received are not non-increasing or the
\* asks not non-decreasing.
C24_Sortedness ==
    last_event.op = "build_book" =>
        LET orders == last_event.item
            built == last_event.returned
        IN /\ built # Nothing =>
                  /\ PriceSorted(built[1].bids, TRUE)
                  /\ PriceSorted(built[1].asks, FALSE)
                  /\ \A i \in DOMAIN built[1].bids : built[1].bids[i].is_bid
                  /\ \A i \in DOMAIN built[1].asks : ~built[1].asks[i].is_bid
                  /\ {built[1].bids[i] : i \in DOMAIN built[1].bids}
                         \cup {built[1].asks[i] : i \in DOMAIN built[1].asks}
                     = {orders[i] : i \in DOMAIN orders}
           /\ ~PriceSorted(SideOf(orders, TRUE), TRUE) => built = Nothing
           /\ ~PriceSorted(SideOf(orders, FALSE), FALSE) => built = Nothing

\* C24 witness: build_book returned a book of two bids of different prices
\* and two asks.
C24_Witness ==
    /\ last_event.op = "build_book"
    /\ last_event.returned # Nothing
    /\ Len(last_event.returned[1].bids) = 2
    /\ last_event.returned[1].bids[1].price > last_event.returned[1].bids[2].price
    /\ Len(last_event.returned[1].asks) = 2

---------------------------------------------------------------------------
(* Scenarios of the solve of one book, checked under SpecFill. *)

\* the book has no AMM snapshot, one bid and one ask, and their prices cross
OnePairNoAmm ==
    /\ matcher.book.amm = Nothing
    /\ Len(matcher.book.bids) = 1
    /\ Len(matcher.book.asks) = 1
    /\ matcher.book.bids[1].price >= matcher.book.asks[1].price

\* what C25 states of the solve but for the clearing price: after the first
\* run of the loop both orders are CompleteFill, the matched volume is q and
\* no remainder is carried; the second run returns from fill()
ExactCrossOutcome ==
    /\ matcher.iterations >= 1 =>
          /\ matcher.bid_outcomes[1] = CompleteFill
          /\ matcher.ask_outcomes[1] = CompleteFill
          /\ matcher.results.total_volume = matcher.book.bids[1].quantity
          /\ matcher.results.price # Nothing
          /\ matcher.current_partial = Nothing
    /\ matcher.iterations <= 2
    /\ matcher.reason # Nothing <=> matcher.iterations = 2

\* C25 as stated: on a book with no AMM, one bid and one ask of the same
\* quantity and crossing prices, fill() marks both CompleteFill, matches q,
\* carries no remainder, ends on its next iteration, and the clearing price
\* is the midpoint of the two prices.
C25_ExactCross ==
    (OnePairNoAmm /\ matcher.book.bids[1].quantity = matcher.book.asks[1].quantity) =>
        /\ ExactCrossOutcome
        /\ matcher.iterations >= 1 =>
              2 * matcher.results.price[1]
                  = matcher.book.bids[1].price + matcher.book.asks[1].price

\* C25, amended: the same, with the clearing price the midpoint of the two
\* prices rounded down to a whole unit of price.
C25_ExactCrossAmended ==
    (OnePairNoAmm /\ matcher.book.bids[1].quantity = matcher.book.asks[1].quantity) =>
        /\ ExactCrossOutcome
        /\ matcher.iterations >= 1 =>
              matcher.results.price[1]
                  = DivFloor(matcher.book.bids[1].price + matcher.book.asks[1].price, 2)

\* C25 witness: fill() has returned on an exact cross of two orders whose
\* prices differ by one unit.
C25_Witness ==
    /\ OnePairNoAmm
    /\ matcher.book.bids[1].quantity = matcher.book.asks[1].quantity
    /\ matcher.book.bids[1].price = matcher.book.asks[1].price + 1
    /\ matcher.reason # Nothing
    /\ matcher.bid_outcomes[1] = CompleteFill

\* C26: on a book with no AMM, one bid of quantity qb and one ask of
\* quantity qa < qb with crossing prices, fill() ends with the ask
\* CompleteFill, the bid PartialFill(qa) and the bid carried as the current
\* partial with quantity qb - qa.
C26_PartialRemainder ==
    (/\ OnePairNoAmm
     /\ matcher.book.asks[1].quantity > 0
     /\ matcher.book.asks[1].quantity < matcher.book.bids[1].quantity
     /\ matcher.reason # Nothing) =>
        /\ matcher.ask_outcomes[1] = CompleteFill
        /\ matcher.bid_outcomes[1] = PartialFill(matcher.book.asks[1].quantity)
        /\ matcher.current_partial # Nothing
        /\ matcher.current_partial[1].is_bid
        /\ matcher.current_partial[1].order_id = matcher.book.bids[1].order_id
        /\ matcher.current_partial[1].quantity
               = matcher.book.bids[1].quantity - matcher.book.asks[1].quantity
        /\ matcher.results.total_volume = matcher.book.asks[1].quantity

\* C26 witness: fill() has returned on a bid of 3 against an ask of 1.
C26_Witness ==
    /\ OnePairNoAmm
    /\ matcher.book.bids[1].quantity = 3
    /\ matcher.book.asks[1].quantity = 1
    /\ matcher.reason # Nothing
    /\ matcher.current_partial # Nothing

\* the book has no bids, no asks and no AMM snapshot
EmptyBook ==
    /\ matcher.book.amm = Nothing
    /\ Len(matcher.book.bids) = 0
    /\ Len(matcher.book.asks) = 0

\* C27: on a book with no bids, no asks and no AMM snapshot fill() returns
\* NoMoreBids on its first iteration with nothing matched, and solution()
\* has no outcomes, no AMM quantity and the default clearing price.
C27_EmptyBook ==
    EmptyBook =>
        /\ matcher.iterations <= 1
        /\ matcher.iterations = 1 => matcher.reason = Some("NoMoreBids")
        /\ matcher.results = DefaultSolution
        /\ matcher.amm_outcome = Nothing
        /\ matcher.solution # Nothing =>
              matcher.solution[1] = [id |-> matcher.book.id, ucp |-> 0,
                                     amm_quantity |-> Nothing, searcher |-> Nothing,
                                     limit |-> <<>>]

\* C27 witness: solution() has been taken of the solve of an empty book.
C27_Witness ==
    /\ EmptyBook
    /\ matcher.reason = Some("NoMoreBids")
    /\ matcher.solution # Nothing

\* the fill state `after` does not regress from `before`
NoRegress(before, after) ==
    CASE before.tag = "Unfilled" -> TRUE
      [] before.tag = "PartialFill" ->
             \/ after.tag = "CompleteFill"
             \/ after.tag = "PartialFill" /\ after.filled >= before.filled
      [] before.tag = "CompleteFill" -> after = CompleteFill

\* a PartialFill holds a quantity above zero and strictly below the order's
PartialBelowFull(outcomes, orders) ==
    \A i \in DOMAIN outcomes :
        outcomes[i].tag = "PartialFill" =>
            outcomes[i].filled > 0 /\ outcomes[i].filled < orders[i].quantity

\* C30: during fill() the fill state of every resting order only moves
\* Unfilled -> PartialFill(f) -> CompleteFill: CompleteFill never changes,
\* PartialFill never returns to Unfilled, f never decreases and stays
\* strictly below the order's quantity.
C30_FillStatesNeverRegress ==
    /\ [](/\ PartialBelowFull(matcher.bid_outcomes, matcher.book.bids)
          /\ PartialBelowFull(matcher.ask_outcomes, matcher.book.asks))
    /\ [][/\ \A i \in DOMAIN matcher.bid_outcomes :
                 NoRegress(matcher.bid_outcomes[i], matcher'.bid_outcomes[i])
          /\ \A i \in DOMAIN matcher.ask_outcomes :
                 NoRegress(matcher.ask_outcomes[i], matcher'.ask_outcomes[i])]_vars

\* C30 witness: a bid of 3 went PartialFill(1), PartialFill(2) against two
\* asks of 1 and fill() has returned.
C30_Witness ==
    /\ matcher.book.amm = Nothing
    /\ Len(matcher.book.bids) >= 1
    /\ matcher.bid_outcomes[1] = PartialFill(2)
    /\ Len(matcher.book.asks) = 2
    /\ matcher.ask_outcomes = <<CompleteFill, CompleteFill>>
    /\ matcher.reason # Nothing

---------------------------------------------------------------------------
(* Signing and validating a PreProposal (SpecPreProposalSign):             *)
(* generate_pre_proposal on any height, signer and order maps, the         *)
(* PreProposal as generated or with one field replaced afterwards, then    *)
(* is_valid against any height.                                            *)

\* HashMap<PoolId, OrderWithStorageData<GroupedVanillaOrder>>
LimitMaps ==
    {EmptyMap, RoundLimit, [p \in {2} |-> SecondOrder],
     TwoPoolLimit}
\* HashMap<PoolId, SearcherOrder>
SearcherMaps ==
    {EmptyMap, [p \in {1} |-> [tobo |-> [order_id |-> 3, pool_id |-> 1], tob_reward |-> 1]]}

Heights == 1..MaxHeight

\* the call under check: its arguments, the PreProposal it made (None before
\* the call), whether a field was replaced since, and the height it was
\* validated against
SignCall(height, sk, limit, searcher, nonce) ==
    [height |-> height, sk |-> sk, limit |-> limit, searcher |-> searcher,
     nonce |-> nonce, made |-> None, tampered |-> FALSE, at |-> 0]

InitPreProposalSign ==
    /\ InitCallIdle
    /\ \E height \in Heights, sk \in PeerIds, limit \in LimitMaps,
          searcher \in SearcherMaps, nonce \in 1..MaxNonce :
          last_event = [op |-> "new", peer |-> NoPeer,
                        item |-> SignCall(height, sk, limit, searcher, nonce),
                        returned |-> None]

CallGeneratePreProposal ==
    /\ last_event.op = "new"
    /\ \E pp \in {GeneratePreProposal(last_event.item.height, last_event.item.sk,
                      last_event.item.limit, last_event.item.searcher,
                      last_event.item.nonce)} :
          last_event' = [op |-> "generate_pre_proposal", peer |-> NoPeer,
                         item |-> [last_event.item EXCEPT !.made = pp],
                         returned |-> pp]
    /\ UNCHANGED callIdle

\* the PreProposals that differ from pp in one field: another height, another
\* source, other order maps, or the signature of another key or over
\* another payload
TamperedPreProposals(pp) ==
    ({[pp EXCEPT !.block_height = h] : h \in Heights}
     \cup {[pp EXCEPT !.source = s] : s \in PeerIds}
     \cup {[pp EXCEPT !.limit = l] : l \in LimitMaps}
     \cup {[pp EXCEPT !.searcher = x] : x \in SearcherMaps}
     \cup {[pp EXCEPT !.signature = SignHash(k, pp.signature.hash, 1)] : k \in PeerIds}
     \cup {[pp EXCEPT !.signature =
               SignHash(pp.source, Keccak256(SerializePayload(h, EmptyMap, EmptyMap)), 1)] :
              h \in Heights})
    \ {pp}

TamperPreProposal ==
    /\ last_event.op = "generate_pre_proposal"
    /\ \E pp \in TamperedPreProposals(last_event.item.made) :
          last_event' = [op |-> "tamper", peer |-> NoPeer,
                         item |-> [last_event.item EXCEPT !.made = pp, !.tampered = TRUE],
                         returned |-> pp]
    /\ UNCHANGED callIdle

CallIsValid ==
    /\ last_event.op \in {"generate_pre_proposal", "tamper"}
    /\ \E block_height_arg \in Heights :
          last_event' = [op |-> "is_valid", peer |-> NoPeer,
                         item |-> [last_event.item EXCEPT !.at = block_height_arg],
                         returned |-> PreProposalIsValid(last_event.item.made,
                                                         block_height_arg)]
    /\ UNCHANGED callIdle

NextPreProposalSign == CallGeneratePreProposal \/ TamperPreProposal \/ CallIsValid

SpecPreProposalSign == InitPreProposalSign /\ [][NextPreProposalSign]_vars

\* the signature of pp recovers to its source over the canonical payload
RecoversToSource(pp) ==
    RecoverFromPrehash(pp.signature, Keccak256(PreProposalPayload(pp))) = pp.source

\* C28: generate_pre_proposal(h, sk, limit, searcher) yields a PreProposal
\* whose source is the signer's id, for which is_valid(h) is true and
\* is_valid(h') is false for every h' # h; a PreProposal whose signature
\* does not recover to its source over the key-sorted payload is invalid
\* at every height.
C28_PreProposalRoundTrip ==
    /\ last_event.op = "generate_pre_proposal" =>
          /\ last_event.returned.source = last_event.item.sk
          /\ last_event.returned.block_height = last_event.item.height
          /\ last_event.returned.limit = last_event.item.limit
          /\ last_event.returned.searcher = last_event.item.searcher
    /\ (last_event.op = "is_valid" /\ ~last_event.item.tampered) =>
          (last_event.returned <=> last_event.item.at = last_event.item.height)
    /\ (last_event.op = "is_valid" /\ ~RecoversToSource(last_event.item.made)) =>
          ~last_event.returned

\* C28 witness: a PreProposal with two limit entries and a searcher entry
\* was generated and is_valid at another height returned false.
C28_Witness ==
    /\ last_event.op = "is_valid"
    /\ ~last_event.item.tampered
    /\ Cardinality(DOMAIN last_event.item.limit) = 2
    /\ last_event.item.searcher # EmptyMap
    /\ last_event.item.at # last_event.item.height
    /\ ~last_event.returned

---------------------------------------------------------------------------
(* Signing and validating a Proposal (SpecProposalSign): generate_proposal *)
(* with any source and any key, the Proposal as generated or with one      *)
(* signed field replaced afterwards, then validate.                        *)

\* a PreProposal with limit orders in two pools
TwoPoolPreProposal ==
    GeneratePreProposal(1, 1, TwoPoolLimit, EmptyMap, 1)

\* Vec<PreProposal>
PreProposalLists ==
    {<<>>,
     <<TwoPoolPreProposal>>,
     <<GeneratePreProposal(1, 1, RoundLimit, EmptyMap, 1),
       GeneratePreProposal(1, 2, EmptyMap, EmptyMap, 1)>>}
\* Vec<PoolSolution>
SolutionLists ==
    {<<>>,
     <<[id |-> 1, ucp |-> 2, amm_quantity |-> Nothing, searcher |-> Nothing,
        limit |-> <<[id |-> 1, outcome |-> CompleteFill]>>]>>}

\* the call under check: its arguments, with map_order the order the maps
\* of the argument `preproposals` iterate in, the Proposal it made (None
\* before the call) and what was done to that Proposal since
ProposalCall(ethereum_height, source, preproposals, solutions, sk, map_order) ==
    [ethereum_height |-> ethereum_height, source |-> source,
     preproposals |-> preproposals, solutions |-> solutions, sk |-> sk,
     map_order |-> map_order, made |-> None, tampered |-> FALSE, rebuilt |-> FALSE]

InitProposalSign ==
    /\ InitCallIdle
    /\ \E ethereum_height \in Heights, source \in PeerIds, sk \in PeerIds,
          preproposals \in PreProposalLists, solutions \in SolutionLists :
          \E map_order \in VecMapOrders(preproposals) :
             last_event = [op |-> "new", peer |-> NoPeer,
                           item |-> ProposalCall(ethereum_height, source, preproposals,
                                                 solutions, sk, map_order),
                           returned |-> None]

CallGenerateProposal ==
    /\ last_event.op = "new"
    /\ \E p \in {GenerateProposal(last_event.item.ethereum_height, last_event.item.source,
                     last_event.item.preproposals, last_event.item.solutions,
                     last_event.item.sk, last_event.item.map_order)} :
          last_event' = [op |-> "generate_proposal", peer |-> NoPeer,
                         item |-> [last_event.item EXCEPT !.made = p],
                         returned |-> p]
    /\ UNCHANGED callIdle

\* the Proposals that differ from p in one signed field
TamperedProposals(p) ==
    ({[p EXCEPT !.ethereum_height = h] : h \in Heights}
     \cup {[p EXCEPT !.source = s] : s \in PeerIds}
     \cup UNION {{[p EXCEPT !.preproposals = l, !.map_order = map_order] :
                     map_order \in VecMapOrders(l)} : l \in PreProposalLists}
     \cup {[p EXCEPT !.solutions = l] : l \in SolutionLists})
    \ Rebuilt(p)

TamperProposal ==
    /\ last_event.op = "generate_proposal"
    /\ \E p \in TamperedProposals(last_event.item.made) :
          last_event' = [op |-> "tamper", peer |-> NoPeer,
                         item |-> [last_event.item EXCEPT !.made = p, !.tampered = TRUE],
                         returned |-> p]
    /\ UNCHANGED callIdle

\* the Proposal is replaced by an equal one whose maps were built anew (a
\* copy made entry by entry, or the Proposal decoded from its encoding)
RebuildProposal ==
    /\ last_event.op = "generate_proposal"
    /\ \E p \in Rebuilt(last_event.item.made) :
          last_event' = [op |-> "rebuild", peer |-> NoPeer,
                         item |-> [last_event.item EXCEPT !.made = p, !.rebuilt = TRUE],
                         returned |-> p]
    /\ UNCHANGED callIdle

CallValidate ==
    /\ last_event.op \in {"generate_proposal", "tamper", "rebuild"}
    /\ last_event' = [op |-> "validate", peer |-> NoPeer, item |-> last_event.item,
                      returned |-> ProposalValidate(last_event.item.made)]
    /\ UNCHANGED callIdle

NextProposalSign ==
    CallGenerateProposal \/ TamperProposal \/ RebuildProposal \/ CallValidate

SpecProposalSign == InitProposalSign /\ [][NextProposalSign]_vars

\* C29: generate_proposal(height, source, preproposals, solutions, sk)
\* validates exactly when source is the peer id of sk's key, and a Proposal
\* with a signed field (height, source, preproposals, solutions) changed
\* after signing does not validate.
C29_ProposalRoundTrip ==
    /\ last_event.op = "generate_proposal" =>
          /\ last_event.returned.ethereum_height = last_event.item.ethereum_height
          /\ last_event.returned.source = last_event.item.source
          /\ last_event.returned.preproposals = last_event.item.preproposals
          /\ last_event.returned.solutions = last_event.item.solutions
    /\ (last_event.op = "validate" /\ ~last_event.item.tampered
        /\ ~last_event.item.rebuilt) =>
          (last_event.returned <=> last_event.item.source = last_event.item.sk)
    /\ (last_event.op = "validate" /\ last_event.item.tampered) =>
          ~last_event.returned
    /\ (last_event.op = "validate" /\ last_event.returned) =>
          last_event.item.source = last_event.item.sk

\* C29 witness: a Proposal signed by the key of its source, holding
\* PreProposals and a solution, had its source replaced by the identity of
\* another key and did not validate.
C29_Witness ==
    /\ last_event.op = "validate"
    /\ last_event.item.tampered
    /\ last_event.item.source = last_event.item.sk
    /\ last_event.item.made.source # last_event.item.source
    /\ Len(last_event.item.preproposals) = 2
    /\ Len(last_event.item.solutions) = 1
    /\ ~last_event.returned

\* an equal Proposal whose maps iterate in another order does not validate,
\* although no field of it was changed
RebuiltCopyRejected ==
    /\ last_event.op = "validate"
    /\ last_event.item.rebuilt
    /\ last_event.item.source = last_event.item.sk
    /\ ~last_event.returned

---------------------------------------------------------------------------
(* Claims about the steps of fill(), checked under SpecFill. *)

\* the last run of the loop matched volume
MatchStep == matcher.step # Nothing /\ matcher.step[1].matched > 0

\* C31 as stated: after every match step results.price is the midpoint of
\* the bid and ask prices when the two quantities are equal, the ask's price
\* when the ask was fully consumed and the bid's price when the bid was.
C31_StepSettlementPrice ==
    MatchStep =>
        LET st == matcher.step[1]
            bid_price == ContainerPrice(st.bid[1])
            ask_price == ContainerPrice(st.ask[1])
        IN /\ matcher.results.price # Nothing
           /\ IF st.bid_q = st.ask_q
              THEN 2 * matcher.results.price[1] = bid_price + ask_price
              ELSE IF st.ask_q < st.bid_q
              THEN matcher.results.price[1] = ask_price
              ELSE matcher.results.price[1] = bid_price

\* what fill() does: the midpoint rounded down on equal quantities, and
\* otherwise the price of the side left with a remainder
C31_PriceOfTheRemainingSide ==
    MatchStep =>
        LET st == matcher.step[1]
            bid_price == ContainerPrice(st.bid[1])
            ask_price == ContainerPrice(st.ask[1])
        IN /\ matcher.results.price # Nothing
           /\ IF st.bid_q = st.ask_q
              THEN matcher.results.price[1] = DivFloor(bid_price + ask_price, 2)
              ELSE IF st.ask_q < st.bid_q
              THEN matcher.results.price[1] = bid_price
              ELSE matcher.results.price[1] = ask_price

\* a step consumed the ask in full against a larger bid of a higher price
\* and the settlement price is the bid's
C31_Witness ==
    /\ MatchStep
    /\ matcher.step[1].ask_q < matcher.step[1].bid_q
    /\ ContainerPrice(matcher.step[1].ask[1]) < ContainerPrice(matcher.step[1].bid[1])
    /\ matcher.results.price = Some(ContainerPrice(matcher.step[1].bid[1]))

\* the state the last run of the loop found is a crossing one
CrossingStep(st) ==
    /\ st.bid # Nothing
    /\ st.ask # Nothing
    /\ ~(IsAmm(st.bid[1]) /\ IsAmm(st.ask[1]))
    /\ ContainerPrice(st.ask[1]) <= ContainerPrice(st.bid[1])
    /\ st.bid_q > 0
    /\ st.ask_q > 0

\* C32: a run of the loop of fill() records volume exactly when the bid and
\* ask are not both AMM orders, the ask price is <= the bid price and both
\* quantities are non-zero; the volume it records is the smaller of the two
\* quantities; a run that finds any other state returns from fill() with
\* the results and the outcomes as they were.
C32_MatchOnlyWhenCrossing ==
    /\ [](matcher.step # Nothing =>
             LET st == matcher.step[1]
             IN /\ st.matched > 0 <=> CrossingStep(st)
                /\ st.matched > 0 =>
                      /\ st.matched <= st.bid_q
                      /\ st.matched <= st.ask_q
                      /\ st.matched \in {st.bid_q, st.ask_q})
    /\ [][matcher'.iterations = matcher.iterations + 1 =>
             /\ matcher'.results.total_volume
                    = matcher.results.total_volume + matcher'.step[1].matched
             /\ matcher'.step[1].matched > 0 <=> matcher'.reason = Nothing
             /\ matcher'.step[1].matched = 0 =>
                    /\ matcher'.results = matcher.results
                    /\ matcher'.bid_outcomes = matcher.bid_outcomes
                    /\ matcher'.ask_outcomes = matcher.ask_outcomes
                    /\ matcher'.amm_outcome = matcher.amm_outcome]_vars

\* C32 witness: a resting order was matched against an AMM order for the
\* smaller of the two quantities.
C32_Witness ==
    /\ MatchStep
    /\ IsAmm(matcher.step[1].bid[1]) \/ IsAmm(matcher.step[1].ask[1])
    /\ matcher.step[1].bid_q # matcher.step[1].ask_q
    /\ matcher.results.amm_volume > 0

\* C33: the outcome vectors keep one entry per resting bid and ask, a run of
\* the loop whose bid (ask) is an AMM order leaves the bid (ask) outcomes as
\* they were, and solution() returns len(bids) + len(asks) outcomes, each the
\* identifier of a resting order with its final fill state, bids first then
\* asks, each side in book order.
C33_OutcomeListShape ==
    /\ [](/\ Len(matcher.bid_outcomes) = Len(matcher.book.bids)
          /\ Len(matcher.ask_outcomes) = Len(matcher.book.asks)
          /\ matcher.solution # Nothing =>
                LET limit == matcher.solution[1].limit
                    bids == Len(matcher.book.bids)
                IN /\ Len(limit) = bids + Len(matcher.book.asks)
                   /\ \A i \in 1..bids :
                          limit[i] = [id |-> matcher.book.bids[i].order_id,
                                      outcome |-> matcher.bid_outcomes[i]]
                   /\ \A i \in 1..Len(matcher.book.asks) :
                          limit[bids + i] = [id |-> matcher.book.asks[i].order_id,
                                             outcome |-> matcher.ask_outcomes[i]])
    /\ [][matcher'.iterations = matcher.iterations + 1 =>
             LET st == matcher'.step[1]
             IN /\ (st.bid # Nothing /\ IsAmm(st.bid[1])) =>
                       matcher'.bid_outcomes = matcher.bid_outcomes
                /\ (st.ask # Nothing /\ IsAmm(st.ask[1])) =>
                       matcher'.ask_outcomes = matcher.ask_outcomes]_vars

\* C33 witness: solution() was taken of a solve of a bid and an ask in which
\* a run of the loop matched against an AMM order and a resting order was
\* filled whole.
C33_Witness ==
    /\ matcher.solution # Nothing
    /\ Len(matcher.book.bids) = 1
    /\ Len(matcher.solution[1].limit) = 2
    /\ matcher.results.amm_volume > 0
    /\ \E i \in 1..2 : matcher.solution[1].limit[i].outcome = CompleteFill

\* the remainder a checkpoint may carry: none, or that of a Standing order
ConsistentPartial(current_partial) ==
    current_partial = Nothing \/ current_partial[1].standing

\* C34: the matcher retains one checkpoint at most, the checkpoint holds no
\* checkpoint itself, its carried remainder is absent or that of an order
\* that may rest partly filled, and a match step that ends in such a state
\* replaces the checkpoint with a copy of that state (any other run of the
\* loop leaves the checkpoint as it was).
C34_CheckpointsSingleAndConsistent ==
    /\ [](/\ Len(matcher.checkpoint) <= 1
          /\ matcher.checkpoint # Nothing =>
                /\ matcher.checkpoint[1].checkpoint = Nothing
                /\ ConsistentPartial(matcher.checkpoint[1].current_partial))
    /\ [][matcher'.iterations = matcher.iterations + 1 =>
             IF matcher'.step[1].matched > 0 /\ ConsistentPartial(matcher'.current_partial)
             THEN matcher'.checkpoint = Some(CheckpointOf(matcher'))
             ELSE matcher'.checkpoint = matcher.checkpoint]_vars

\* C34 witness: the solve carries the remainder of an order that may not
\* rest partly filled, and the checkpoint retained is that of an earlier
\* state with less volume.
C34_Witness ==
    /\ matcher.current_partial # Nothing
    /\ ~matcher.current_partial[1].standing
    /\ matcher.checkpoint # Nothing
    /\ matcher.checkpoint[1].results.total_volume > 0
    /\ matcher.checkpoint[1].results.total_volume < matcher.results.total_volume

\* the outcomes of one side in book order: CompleteFill orders, then at most
\* one order that is not, then Unfilled orders only
PriorityOrder(outcomes) ==
    \A i \in DOMAIN outcomes : \A j \in DOMAIN outcomes :
        (i < j /\ outcomes[i] # CompleteFill) => outcomes[j] = Unfilled

\* the resting orders whose outcome is a PartialFill
PartiallyFilled ==
    {matcher.book.bids[i] : i \in {k \in DOMAIN matcher.bid_outcomes :
                                      matcher.bid_outcomes[k].tag = "PartialFill"}}
    \cup {matcher.book.asks[i] : i \in {k \in DOMAIN matcher.ask_outcomes :
                                           matcher.ask_outcomes[k].tag = "PartialFill"}}

\* C38: at every point of fill() at most one resting order is PartialFill
\* and it is the order carried as current_partial; on each side the outcomes
\* in book order are CompleteFill orders, then at most one PartialFill, then
\* Unfilled orders only.
C38_SinglePartialAndPriority ==
    /\ Cardinality(PartiallyFilled) <= 1
    /\ matcher.current_partial = Nothing <=> PartiallyFilled = {}
    /\ \A o \in PartiallyFilled :
           /\ matcher.current_partial[1].order_id = o.order_id
           /\ matcher.current_partial[1].is_bid = o.is_bid
    /\ PriorityOrder(matcher.bid_outcomes)
    /\ PriorityOrder(matcher.ask_outcomes)

\* C38 witness: the first bid is CompleteFill, the second is the carried
\* PartialFill, and fill() has returned.
C38_Witness ==
    /\ Len(matcher.book.bids) = 2
    /\ matcher.bid_outcomes[1] = CompleteFill
    /\ matcher.bid_outcomes[2].tag = "PartialFill"
    /\ matcher.current_partial # Nothing
    /\ matcher.current_partial[1].order_id = matcher.book.bids[2].order_id
    /\ matcher.reason # Nothing

\* the quantity of an order its outcome says was filled
FilledQuantity(order, outcome) ==
    IF outcome = CompleteFill THEN order.quantity
    ELSE IF outcome.tag = "PartialFill" THEN outcome.filled
    ELSE 0

RECURSIVE TotalFilled(_, _, _)
\* the filled quantities of the first n orders of a side, summed
TotalFilled(orders, outcomes, n) ==
    IF n = 0 THEN 0
    ELSE FilledQuantity(orders[n], outcomes[n]) + TotalFilled(orders, outcomes, n - 1)

\* C39: on a book with no AMM, after every step of fill() the filled
\* quantity of the bids equals the filled quantity of the asks and equals
\* results.total_volume; with an AMM results.amm_volume <= total_volume.
C39_VolumeConservation ==
    /\ matcher.book.amm = Nothing =>
          /\ TotalFilled(matcher.book.bids, matcher.bid_outcomes, Len(matcher.book.bids))
                 = matcher.results.total_volume
          /\ TotalFilled(matcher.book.asks, matcher.ask_outcomes, Len(matcher.book.asks))
                 = matcher.results.total_volume
          /\ matcher.results.amm_volume = 0
    /\ matcher.results.amm_volume <= matcher.results.total_volume

\* C39 witness: a solve without an AMM matched 4 units over two bids, one
\* of them partly, and has returned.
C39_Witness ==
    /\ matcher.book.amm = Nothing
    /\ Len(matcher.book.bids) = 2
    /\ matcher.results.total_volume = 4
    /\ \E i \in 1..2 : matcher.bid_outcomes[i].tag = "PartialFill"
    /\ matcher.reason # Nothing

---------------------------------------------------------------------------
(* Claims about the sources of the recorded PreProposals, checked under Spec. *)

\* C35: every PreProposal handle_pre_proposal recorded in the phase's seen
\* set has a source that is a member of the validator roster.
C35_RecordedSourcesAreValidators ==
    \A pp \in pre_proposal_set : pp.source \in validators

\* a validator relayed the valid PreProposal of a signer outside the roster
\* and handle_pre_proposal recorded it
C35_Witness ==
    /\ last_event.op = "handle_pre_proposal"
    /\ last_event.peer \in validators
    /\ last_event.item.source = Outsider
    /\ last_event.item \in pre_proposal_set

---------------------------------------------------------------------------
(* PreProposal::new (SpecPreProposalNew): the OrderSet fetched from        *)
(* storage, two Vecs of orders, turned into the maps of a PreProposal.     *)

RECURSIVE CollectByPool(_, _)
\* `.map(|o| (o.pool_id, value)).collect::<HashMap<_, _>>()`: the entries
\* are inserted in turn, a later entry of a pool replacing the earlier one
CollectByPool(orders, map) ==
    IF orders = <<>> THEN map
    ELSE LET o == Head(orders)
         IN CollectByPool(Tail(orders),
                [p \in DOMAIN map \cup {o[1]} |-> IF p = o[1] THEN o[2] ELSE map[p]])

\* PreProposal::new
PreProposalNew(ethereum_height, sk, orders, nonce) ==
    LET limit_map == CollectByPool(
                         [i \in DOMAIN orders.limit |->
                             <<orders.limit[i].pool_id, orders.limit[i]>>], EmptyMap)
        searcher_map == CollectByPool(
                            [i \in DOMAIN orders.searcher |->
                                <<orders.searcher[i].pool_id,
                                  [tobo |-> orders.searcher[i],
                                   tob_reward |-> orders.searcher[i].tob_reward]>>], EmptyMap)
    IN GeneratePreProposal(ethereum_height, sk, limit_map, searcher_map, nonce)

\* the limit orders storage can hold: two of pool 1 and one of pool 2
LimitVecs ==
    UNION {IterationOrders(S) : S \in SUBSET {RoundOrder, LowAsk, SecondOrder}}
\* the searcher orders storage can hold
SearcherVecs ==
    UNION {IterationOrders(S) :
              S \in SUBSET {[order_id |-> 7, pool_id |-> 1, tob_reward |-> 1],
                            [order_id |-> 8, pool_id |-> 1, tob_reward |-> 2],
                            [order_id |-> 9, pool_id |-> 2, tob_reward |-> 1]}}

InitPreProposalNew ==
    /\ InitCallIdle
    /\ \E height \in Heights, sk \in validators, limit \in LimitVecs,
          searcher \in SearcherVecs :
          last_event = [op |-> "new", peer |-> NoPeer,
                        item |-> [height |-> height, sk |-> sk,
                                  orders |-> [limit |-> limit, searcher |-> searcher]],
                        returned |-> None]

CallPreProposalNew ==
    /\ last_event.op = "new"
    /\ \E pp \in {PreProposalNew(last_event.item.height, last_event.item.sk,
                                 last_event.item.orders, 1)} :
          last_event' = [op |-> "PreProposal::new", peer |-> NoPeer,
                         item |-> last_event.item, returned |-> pp]
    /\ UNCHANGED callIdle

NextPreProposalNew == CallPreProposalNew

SpecPreProposalNew == InitPreProposalNew /\ [][NextPreProposalNew]_vars

\* the values of a map
ValuesOf(map) == {map[k] : k \in DOMAIN map}

\* C36: the PreProposal built by PreProposal::new(height, sk, orders) holds
\* every limit order and every searcher order of the OrderSet, also when
\* several orders belong to one pool.
C36_NewLosesNoOrder ==
    last_event.op = "PreProposal::new" =>
        LET orders == last_event.item.orders
            pp == last_event.returned
        IN /\ \A i \in DOMAIN orders.limit : orders.limit[i] \in ValuesOf(pp.limit)
           /\ \A i \in DOMAIN orders.searcher :
                  orders.searcher[i] \in {x.tobo : x \in ValuesOf(pp.searcher)}

\* what PreProposal::new keeps: of each pool the limit order and the
\* searcher order that come last in their Vec, and nothing else
C36_NewKeepsLastOfEachPool ==
    last_event.op = "PreProposal::new" =>
        LET orders == last_event.item.orders
            pp == last_event.returned
            LastOfPool(vec, i) == \A j \in DOMAIN vec : vec[j].pool_id = vec[i].pool_id => j <= i
        IN /\ ValuesOf(pp.limit)
                  = {orders.limit[i] : i \in {k \in DOMAIN orders.limit :
                                                 LastOfPool(orders.limit, k)}}
           /\ {x.tobo : x \in ValuesOf(pp.searcher)}
                  = {orders.searcher[i] : i \in {k \in DOMAIN orders.searcher :
                                                    LastOfPool(orders.searcher, k)}}
           /\ PreProposalIsValid(pp, last_event.item.height)

\* PreProposal::new was called on three limit orders, two of them of pool 1,
\* and returned a PreProposal of two limit orders
C36_Witness ==
    /\ last_event.op = "PreProposal::new"
    /\ Len(last_event.item.orders.limit) = 3
    /\ Cardinality(DOMAIN last_event.returned.limit) = 2

---------------------------------------------------------------------------
(* build_book and the iteration order of its input, checked under SpecBook. *)

\* C37: for every set of orders, build_book returns a book whatever order
\* the set is iterated in, and the same book for every iteration order.
C37_BuildBookOrderIndependent ==
    last_event.op = "build_book" =>
        /\ last_event.returned # Nothing
        /\ \A other \in IterationOrders({last_event.item[i] : i \in DOMAIN last_event.item}) :
               BuildBook(1, Nothing, other) = last_event.returned

\* build_book was handed two bids, the lower-priced one first, and returned
\* no book
C37_Witness ==
    /\ last_event.op = "build_book"
    /\ last_event.item = <<LowBid, HighBid>>
    /\ last_event.returned = Nothing
    /\ BuildBook(1, Nothing, <<HighBid, LowBid>>) # Nothing

---------------------------------------------------------------------------
(* Solver failure during the replay verification, checked under SpecMachine. *)

\* C40: whatever the solver delivers in Finalization, an error included, the
\* poll that finds it completes the verification with a boolean result, a
\* negative one for an error, and the round state machine does not abort.
C40_SolverFailureIsAValue ==
    /\ [](current_state # Panicked)
    /\ [][(/\ InFinalization
           /\ ~Completed
           /\ current_state.verification_future.status = "resolved"
           /\ last_event' # last_event
           /\ last_event'.op = "poll_next") =>
             /\ current_state'.phase = "Finalization"
             /\ current_state'.completed
             /\ current_state'.result \in {Some(TRUE), Some(FALSE)}
             /\ current_state.verification_future.output = Nothing =>
                    current_state'.result = Some(FALSE)]_vars

\* the solver delivered an error and the poll_next call that found it
\* unwound
C40_Witness ==
    /\ current_state = Panicked
    /\ last_event.op = "poll_next"

====
